---- MODULE Spec2Model ----
\* Quotation pipeline of the OCR quotation backend: quotation numbering,
\* totals arithmetic, request validation and persistence of quotations.
\*
\* Three generations of the quotation code live side by side in the
\* repository; each is modelled from its own files:
\*   services/quotationService.js + the controller that requires it
\*       (generateQuotationNumber with a date-scoped sequence, calculateTotals)
\*   services/matchingService.js + controllers/quotationController.js
\*       (generateQuotationNumber from the millisecond clock)
\*   src/models/Quotation.js + its controller, validators and routes
\*       (totals recomputed by the pre('save') middleware)
\*
\* Amounts are exact rationals, stored as integers in units of 1/Scale.
EXTENDS Integers, Sequences, FiniteSets, TLC

\* ---------------------------------------------------------------- bounds
NumRequests == 2
MaxDay == 2
SeedQuotations == 9
MaxCalls == 3
MaxTicks == 3
MaxItems == 2
MaxDocs == 1
NumIntake == 1
MaxTokens == 3
MaxFuzzy == 1
MaxExtracted == 2
NumMatcherCalls == 2

\* ------------------------------------------------------- program constants
PadWidth == 4
TimestampDigits == 6
Percent == 100
Scale == Percent * Percent

\* --------------------------------------------------------------- options
\* A value that may be undefined: <<>> is undefined, <<x>> is x.
None == <<>>
Some(x) == <<x>>
IsSome(o) == o # <<>>
Val(o) == o[1]

\* ---------------------------------------------------------------- strings
\* A string of decimal digits is a sequence over 0..9.
RECURSIVE String(_)
String(n) == IF n < 10 THEN <<n>> ELSE String(n \div 10) \o <<n % 10>>

RECURSIVE padStart(_, _)
padStart(s, w) == IF Len(s) >= w THEN s ELSE padStart(<<0>> \o s, w)

RECURSIVE parseInt(_)
parseInt(s) ==
    IF s = <<>> THEN 0
    ELSE parseInt(SubSeq(s, 1, Len(s) - 1)) * 10 + s[Len(s)]

\* Binary string order, the order of a sort on a string field.
RECURSIVE StrLess(_, _)
StrLess(a, b) ==
    IF a = <<>> THEN b # <<>>
    ELSE IF b = <<>> THEN FALSE
    ELSE IF a[1] # b[1] THEN a[1] < b[1]
    ELSE StrLess(Tail(a), Tail(b))

\* --------------------------------------------------------------- catalog
\* The Product collection: id -> document.
Catalog ==
    [p \in {1, 2, 3} |->
        CASE p = 1 -> [name |-> "wire", price |-> 2500, defaultDiscount |-> 5,
                       gstPercentage |-> 18, isActive |-> TRUE]
          [] p = 2 -> [name |-> "switch", price |-> 120, defaultDiscount |-> 0,
                       gstPercentage |-> 12, isActive |-> TRUE]
          [] p = 3 -> [name |-> "socket", price |-> 40, defaultDiscount |-> 10,
                       gstPercentage |-> 5, isActive |-> FALSE]]
UnknownProduct == 9

VARIABLES
    today,        \* the calendar day of the server clock
    products,     \* the Product collection
    quotations,   \* the Quotation collection, in insertion order
    reqs,         \* the createQuotation requests: position, locals, response
    issued,       \* the numbers generateQuotationNumber returned, in order
    now,          \* the millisecond clock
    midnightLow,  \* the low digits of Date.now() at midnight of day 0
    ticks,        \* the clock steps taken
    legacyIssued, \* the numbers matchingService.generateQuotationNumber returned
    calcItems,    \* the item list handed to calculateTotals
    calcResult,   \* what calculateTotals returned for it, once called
    calcAgain,    \* what a second call of calculateTotals returned, and on what
    deployment,   \* which server answers: "service" or "model"
    qdocs,        \* the Quotation collection of the model with pre('save')
    last,         \* the last request to that model and its answer
    ocrText,      \* the text handed to parseOCRText or processOCRText
    parsedItems,  \* what parseOCRText returned for it, once called
    productDocs,  \* the Product collection the matcher loads from
    matcherProducts, \* this.products of the SmartProductMatcher
    fuse,         \* this.fuse: the product list it indexes, once built
    productText,  \* the text findMatches was last called with
    matches,      \* what findMatches returned for it, once called
    processed,    \* what processOCRText returned, once called
    extracted,    \* req.body.data of the processOCRData request
    findFails,    \* whether Product.find of matchProducts rejects
    searches,     \* what fuse.search answered for each extracted product
    matching,     \* what matchProducts returned, once called
    dataReply,    \* the response of processOCRData, once sent
    calls         \* the calls in flight on one SmartProductMatcher

vars == <<today, products, quotations, reqs, issued>>
legacyVars == <<now, midnightLow, ticks, legacyIssued>>
calcVars == <<calcItems, calcResult, calcAgain>>
modelVars == <<deployment, qdocs, last>>
parseVars == <<ocrText, parsedItems>>
matchVars == <<productDocs, matcherProducts, fuse, productText, matches,
              processed>>
dataVars == <<extracted, findFails, searches, matching, dataReply>>
concVars == <<calls>>
pipeVars == <<dataVars, concVars>>
ocrVars == <<parseVars, matchVars, pipeVars>>
allVars == <<vars, legacyVars, calcVars, modelVars, ocrVars>>

\* ------------------------------------------------- calculateTotals
\* quotationService.calculateTotals: per item and aggregate amounts.
itemPriceOf(item) == item.price * item.quantity * Scale

\* itemPrice * (discountPercentage / 100); one percent of a unit is
\* Scale \div Percent, so the product is exact.
discountAmountOf(item) ==
    item.price * item.quantity * item.discountPercentage * (Scale \div Percent)

netPriceOf(item) == itemPriceOf(item) - discountAmountOf(item)

\* The tax amount rounded down to 1/100.
taxAmountInCents(item) ==
    (((netPriceOf(item) \div Percent) * item.gstPercentage) \div Percent)
        * Percent

\* netPrice * (gstPercentage / 100); netPrice is a multiple of Percent.
taxAmountOf(item) == (netPriceOf(item) \div Percent) * item.gstPercentage

itemTotalOf(item) == netPriceOf(item) + taxAmountOf(item)

\* The processed item with the discount marked as taken.
processItemTakingDiscount(item) ==
    [product |-> item.product, quantity |-> item.quantity,
     price |-> item.price,
     discountPercentage |-> 0,
     gstPercentage |-> item.gstPercentage,
     netPrice |-> netPriceOf(item),
     taxAmount |-> taxAmountOf(item),
     itemTotal |-> itemTotalOf(item)]

processItem(item) ==
    [product |-> item.product, quantity |-> item.quantity,
     price |-> item.price,
     discountPercentage |-> item.discountPercentage,
     gstPercentage |-> item.gstPercentage,
     netPrice |-> netPriceOf(item),
     taxAmount |-> taxAmountOf(item),
     itemTotal |-> itemTotalOf(item)]

\* The three accumulators after the first k items of the map.
RECURSIVE accumulate(_, _)
accumulate(items, k) ==
    IF k = 0
    THEN [subtotal |-> 0, totalDiscountAmount |-> 0, totalGstAmount |-> 0]
    ELSE LET acc == accumulate(items, k - 1)
         IN  [subtotal |-> acc.subtotal + itemPriceOf(items[k]),
              totalDiscountAmount |->
                 acc.totalDiscountAmount + discountAmountOf(items[k]),
              totalGstAmount |-> acc.totalGstAmount + taxAmountOf(items[k])]

grandTotalWithoutTax(subtotal, totalDiscountAmount, totalGstAmount) ==
    subtotal - totalDiscountAmount

grandTotalOf(subtotal, totalDiscountAmount, totalGstAmount) ==
    subtotal - totalDiscountAmount + totalGstAmount

calculateTotals(items) ==
    LET acc == accumulate(items, Len(items))
    IN  [processedItems |-> [i \in DOMAIN items |-> processItem(items[i])],
         subtotal |-> acc.subtotal,
         totalDiscountAmount |-> acc.totalDiscountAmount,
         totalGstAmount |-> acc.totalGstAmount,
         grandTotal |-> grandTotalOf(acc.subtotal, acc.totalDiscountAmount,
                                     acc.totalGstAmount)]

\* ------------------------------------------- generateQuotationNumber
\* "QT-YYYYMMDD-NNNN" is the pair of its day and its suffix string.
NoNumber == [day |-> 0, suffix |-> <<>>]

\* The same query sorted in ascending order.
earliestQuotation(qs, day) ==
    LET hits == {i \in DOMAIN qs : qs[i].quotationNumber.day = day}
    IN  IF hits = {} THEN None
        ELSE Some(qs[CHOOSE i \in hits :
                        \A j \in hits :
                            ~StrLess(qs[j].quotationNumber.suffix,
                                     qs[i].quotationNumber.suffix)])

\* Quotation.findOne({quotationNumber: /^QT-<day>-/}).sort({quotationNumber: -1})
latestQuotation(qs, day) ==
    LET hits == {i \in DOMAIN qs : qs[i].quotationNumber.day = day}
    IN  IF hits = {} THEN None
        ELSE Some(qs[CHOOSE i \in hits :
                        \A j \in hits :
                            ~StrLess(qs[i].quotationNumber.suffix,
                                     qs[j].quotationNumber.suffix)])

nextSequence(latest) ==
    IF IsSome(latest)
    THEN parseInt(Val(latest).quotationNumber.suffix) + 1
    ELSE 1

quotationNumberFor(latest, day) ==
    [day |-> day, suffix |-> padStart(String(nextSequence(latest)), PadWidth)]

\* ------------------------------------------------ createQuotation
\* Request bodies: customer (has a name or not) and items, whose kind is
\* "missing", "notArray" or "array"; the list of an array holds
\* {product, quantity, discountPercentage}.
Item(p, q, d) == [product |-> p, quantity |-> q, discountPercentage |-> d]
Body(c, k, its) == [customer |-> c, itemsKind |-> k, items |-> its]
Order(its) == Body(TRUE, "array", its)

\* The bodies of the numbering specifications: valid one-item orders.
OrderBodies ==
    {Order(<<Item(1, 5, None)>>), Order(<<Item(2, 1, Some(10))>>),
     Order(<<Item(1, 5, Some(0))>>)}

IdleReq ==
    [pc |-> "idle", body |-> Body(FALSE, "missing", <<>>), day |-> 0,
     totals |-> calculateTotals(<<>>), number |-> NoNumber,
     generated |-> 0, status |-> 0, error |-> "none"]

\* The check without the test of items.length.
bodyAcceptedAnyLength(b) ==
    /\ b.customer
    /\ b.itemsKind = "array"

\* lines 120-128: the required-field check.
bodyAccepted(b) ==
    /\ b.customer
    /\ b.itemsKind = "array"
    /\ Len(b.items) # 0

\* lines 131-136: Product.find({_id: {$in: productIds}}) and the count check.
foundProducts(prods, items) ==
    {items[i].product : i \in DOMAIN items} \cap DOMAIN prods

productsValid(prods, items) ==
    Cardinality(foundProducts(prods, items)) = Len(items)

\* lines 140-151: the item with the product's details.
itemWithDetails(prods, item) ==
    LET product == prods[item.product]
    IN  [product |-> item.product, quantity |-> item.quantity,
         price |-> product.price,
         discountPercentage |->
            IF IsSome(item.discountPercentage) /\ Val(item.discountPercentage) # 0
            THEN Val(item.discountPercentage)
            ELSE product.defaultDiscount,
         gstPercentage |-> product.gstPercentage]

\* The unique index on quotationNumber.
noUniqueIndex(qs, number) == TRUE

uniqueIndexAllows(qs, number) ==
    \A i \in DOMAIN qs : qs[i].quotationNumber # number

newQuotation(r, rq) ==
    [quotationNumber |-> rq.number,
     items |-> rq.totals.processedItems,
     subtotal |-> rq.totals.subtotal,
     totalDiscountAmount |-> rq.totals.totalDiscountAmount,
     totalGstAmount |-> rq.totals.totalGstAmount,
     grandTotal |-> rq.totals.grandTotal,
     status |-> "draft",
     request |-> r]

\* The handler is entered with body b: lines 118-132, up to the await of
\* Product.find.
CreateQuotation(r, b) ==
    /\ reqs[r].pc = "idle"
    /\ reqs' = [reqs EXCEPT ![r] =
            IF bodyAccepted(b)
            THEN [@ EXCEPT !.pc = "products", !.body = b]
            ELSE [@ EXCEPT !.pc = "done", !.body = b, !.status = 400,
                           !.error = "required"]]
    /\ UNCHANGED <<today, products, quotations, issued, legacyVars, calcVars, modelVars, ocrVars>>

\* Product.find answers; lines 134-155 and generateQuotationNumber lines 8-14,
\* up to the await of Quotation.findOne.
FindProducts(r) ==
    /\ reqs[r].pc = "products"
    /\ LET rq == reqs[r]
           itemsWithDetails ==
               [i \in DOMAIN rq.body.items |->
                   itemWithDetails(products, rq.body.items[i])]
       IN  reqs' = [reqs EXCEPT ![r] =
                IF productsValid(products, rq.body.items)
                THEN [rq EXCEPT !.pc = "latest", !.day = today,
                                !.totals = calculateTotals(itemsWithDetails)]
                ELSE [rq EXCEPT !.pc = "done", !.status = 400,
                                !.error = "products"]]
    /\ UNCHANGED <<today, products, quotations, issued, legacyVars, calcVars, modelVars, ocrVars>>

\* Quotation.findOne answers; generateQuotationNumber lines 18-25 return the
\* number; lines 157-170, up to the await of save.
FindLatest(r) ==
    /\ reqs[r].pc = "latest"
    /\ LET number ==
            quotationNumberFor(latestQuotation(quotations, reqs[r].day),
                               reqs[r].day)
       IN  /\ reqs' = [reqs EXCEPT ![r] =
                    [@ EXCEPT !.pc = "save", !.number = number,
                              !.generated = @ + 1]]
           /\ issued' = Append(issued, number)
    /\ UNCHANGED <<today, products, quotations, legacyVars, calcVars, modelVars, ocrVars>>

\* newQuotation.save() answers; lines 172-185.
Save(r) ==
    /\ reqs[r].pc = "save"
    /\ IF uniqueIndexAllows(quotations, reqs[r].number)
       THEN /\ quotations' = Append(quotations, newQuotation(r, reqs[r]))
            /\ reqs' = [reqs EXCEPT ![r] =
                    [@ EXCEPT !.pc = "done", !.status = 201]]
       ELSE /\ quotations' = quotations
            /\ reqs' = [reqs EXCEPT ![r] =
                    [@ EXCEPT !.pc = "done", !.status = 500,
                              !.error = "duplicate"]]
    /\ UNCHANGED <<today, products, issued, legacyVars, calcVars, modelVars, ocrVars>>

\* Midnight.
NextDay ==
    /\ today < MaxDay
    /\ today' = today + 1
    /\ UNCHANGED <<products, quotations, reqs, issued, legacyVars, calcVars, modelVars, ocrVars>>

Requests == 1..NumRequests

\* --------------------------------- matchingService.generateQuotationNumber
\* The millisecond clock: `now` is the time since the midnight that starts
\* day 0, `midnightLow` the last TimestampDigits digits of Date.now() at that
\* midnight.
MsPerDay == 24 * 60 * 60 * 1000

dateNow == midnightLow + now

\* Date.now().toString().slice(-6)
timestampSuffix(ms) ==
    padStart(String(ms % 10^TimestampDigits), TimestampDigits)

legacyQuotationNumber(t, ms) ==
    [day |-> t \div MsPerDay, suffix |-> timestampSuffix(ms)]

LegacyIdle ==
    /\ now = 0
    /\ midnightLow = 0
    /\ ticks = 0
    /\ legacyIssued = <<>>

CalcIdle ==
    /\ calcItems = <<>>
    /\ calcResult = None
    /\ calcAgain = None

\* No request has been answered yet.
NoAnswer ==
    [op |-> "none", status |-> 0, before |-> 0, itemsKind |-> "none",
     itemCount |-> 0]

ModelIdle ==
    /\ qdocs = <<>>
    /\ last = NoAnswer

\* No processOCRData request has arrived and no call is in flight on a
\* matcher.
PipeIdle ==
    /\ extracted = <<>>
    /\ findFails = FALSE
    /\ searches = <<>>
    /\ matching = None
    /\ dataReply = None
    /\ calls = <<>>

\* No text has been handed to the matcher and no products are loaded.
OcrIdle ==
    /\ PipeIdle
    /\ ocrText = <<>>
    /\ parsedItems = None
    /\ productDocs = <<>>
    /\ matcherProducts = <<>>
    /\ fuse = None
    /\ productText = <<>>
    /\ matches = None
    /\ processed = None

ServiceIdle ==
    /\ today = 1
    /\ products = Catalog
    /\ quotations = <<>>
    /\ reqs = [r \in Requests |-> IdleReq]
    /\ issued = <<>>

LegacyGenerateQuotationNumber ==
    /\ Len(legacyIssued) < MaxCalls
    /\ legacyIssued' = Append(legacyIssued, legacyQuotationNumber(now, dateNow))
    /\ UNCHANGED <<now, midnightLow, ticks>>
    /\ UNCHANGED <<vars, calcVars, modelVars, ocrVars>>

\* Time passes: a millisecond, just under or exactly 10^TimestampDigits
\* milliseconds, or the rest of the day.
Tick(d) ==
    /\ ticks < MaxTicks
    /\ now' = now + d
    /\ ticks' = ticks + 1
    /\ UNCHANGED <<midnightLow, legacyIssued>>
    /\ UNCHANGED <<vars, calcVars, modelVars, ocrVars>>

TickSteps ==
    {1, 10^TimestampDigits - 1, 10^TimestampDigits,
     MsPerDay - 10^TimestampDigits}

InitLegacy ==
    /\ ServiceIdle
    /\ CalcIdle
    /\ ModelIdle
    /\ OcrIdle
    /\ deployment = "service"
    /\ now = 0
    /\ midnightLow \in {0, 400000}
    /\ ticks = 0
    /\ legacyIssued = <<>>

LegacyNext ==
    \/ LegacyGenerateQuotationNumber
    \/ \E d \in TickSteps : Tick(d)

SpecLegacy == InitLegacy /\ [][LegacyNext]_allVars

\* C4: two calls of matchingService.generateQuotationNumber on one calendar
\* day return numbers with different suffixes.
C4_TimestampSuffixesDiffer ==
    \A i, j \in DOMAIN legacyIssued :
        (i < j /\ legacyIssued[i].day = legacyIssued[j].day)
            => legacyIssued[i].suffix # legacyIssued[j].suffix

Init ==
    /\ ServiceIdle
    /\ LegacyIdle
    /\ CalcIdle
    /\ ModelIdle
    /\ OcrIdle
    /\ deployment = "service"

\* Requests are served concurrently: any request takes its next step.
Next ==
    \/ \E r \in Requests : \E b \in OrderBodies : CreateQuotation(r, b)
    \/ \E r \in Requests : FindProducts(r)
    \/ \E r \in Requests : FindLatest(r)
    \/ \E r \in Requests : Save(r)
    \/ NextDay

Spec == Init /\ [][Next]_allVars

\* Requests are served one after another: a request starts only when no
\* other is in flight. The day starts with the quotations of 0 or
\* SeedQuotations earlier orders, created the same way.
NoneInFlight == \A r \in Requests : reqs[r].pc \in {"idle", "done"}

seedNumber(n) == [day |-> 1, suffix |-> padStart(String(n), PadWidth)]

seedQuotation(n) ==
    newQuotation(0, [number |-> seedNumber(n),
                     totals |-> calculateTotals(
                        <<itemWithDetails(Catalog, Item(1, 5, None))>>)])

InitSeq ==
    /\ today = 1
    /\ products = Catalog
    /\ \E n \in {0, SeedQuotations} :
        /\ quotations = [i \in 1..n |-> seedQuotation(i)]
        /\ issued = [i \in 1..n |-> seedNumber(i)]
    /\ reqs = [r \in Requests |-> IdleReq]
    /\ LegacyIdle
    /\ CalcIdle
    /\ ModelIdle
    /\ OcrIdle
    /\ deployment = "service"

SeqNext ==
    \/ \E r \in Requests : \E b \in OrderBodies :
            NoneInFlight /\ CreateQuotation(r, b)
    \/ \E r \in Requests : FindProducts(r)
    \/ \E r \in Requests : FindLatest(r)
    \/ \E r \in Requests : Save(r)
    \/ NextDay

SpecSeq == InitSeq /\ [][SeqNext]_allVars

\* Late on a day of many orders, created one after another: the greatest
\* sequence so far is one or two below 10^PadWidth. The collection holds
\* the two latest quotations of the day, the earlier ones are deleted.
InitRollover ==
    /\ today = 1
    /\ products = Catalog
    /\ \E n \in {10^PadWidth - 2, 10^PadWidth - 1} :
        /\ quotations = <<seedQuotation(n - 1), seedQuotation(n)>>
        /\ issued = <<seedNumber(n - 1), seedNumber(n)>>
    /\ reqs = [r \in Requests |-> IdleReq]
    /\ LegacyIdle
    /\ CalcIdle
    /\ ModelIdle
    /\ OcrIdle
    /\ deployment = "service"

SpecRollover == InitRollover /\ [][SeqNext]_allVars

\* deleteQuotation, part_013 lines 306-332: Quotation.findByIdAndDelete(id)
\* removes the document; for an id that is not found the answer is 404 and
\* nothing changes.
DeleteQuotation(id) ==
    /\ id \in DOMAIN quotations
    /\ quotations' = SubSeq(quotations, 1, id - 1)
                        \o SubSeq(quotations, id + 1, Len(quotations))
    /\ UNCHANGED <<today, products, reqs, issued, legacyVars, calcVars, modelVars, ocrVars>>

\* Quotations are created one after another and deleted at any time.
DeleteNext ==
    \/ \E r \in Requests : \E b \in OrderBodies :
            NoneInFlight /\ CreateQuotation(r, b)
    \/ \E r \in Requests : FindProducts(r)
    \/ \E r \in Requests : FindLatest(r)
    \/ \E r \in Requests : Save(r)
    \/ \E id \in 1..NumRequests : DeleteQuotation(id)
    \/ NextDay

SpecDelete == Init /\ [][DeleteNext]_allVars

\* ------------------------------------------- calculateTotals, called alone
\* The items calculateTotals is handed: price, quantity and percentages.
CalcItem(p, q, d, g) ==
    [product |-> 1, quantity |-> q, price |-> p, discountPercentage |-> d,
     gstPercentage |-> g]

CalcItemSet ==
    {CalcItem(p, q, d, g) : p \in {1, 2500}, q \in {1, 5}, d \in {0, 5, 100},
                            g \in {0, 18}}

RECURSIVE ListsUpTo(_, _)
ListsUpTo(S, n) ==
    IF n = 0 THEN {<<>>}
    ELSE LET shorter == ListsUpTo(S, n - 1)
         IN  shorter \cup {Append(l, x) : l \in {m \in shorter : Len(m) = n - 1},
                                          x \in S}

InitTotals ==
    /\ ServiceIdle
    /\ LegacyIdle
    /\ ModelIdle
    /\ OcrIdle
    /\ deployment = "service"
    /\ calcItems \in ListsUpTo(CalcItemSet, MaxItems)
    /\ calcResult = None
    /\ calcAgain = None

CalculateTotals ==
    /\ calcResult = None
    /\ calcResult' = Some(calculateTotals(calcItems))
    /\ UNCHANGED <<calcItems, calcAgain, vars, legacyVars, modelVars, ocrVars>>

\* calculateTotals is called a second time, on the same item list or on
\* the processedItems the first call returned.
CalculateTotalsAgain(on) ==
    /\ IsSome(calcResult)
    /\ calcAgain = None
    /\ calcAgain' =
            Some([on |-> on,
                  result |-> calculateTotals(
                      IF on = "items" THEN calcItems
                      ELSE Val(calcResult).processedItems)])
    /\ UNCHANGED <<calcItems, calcResult, vars, legacyVars, modelVars, ocrVars>>

TotalsNext ==
    \/ CalculateTotals
    \/ \E on \in {"items", "processedItems"} : CalculateTotalsAgain(on)

SpecTotals == InitTotals /\ [][TotalsNext]_allVars

\* ------------------------------- the Quotation model with pre('save')
\* models/Quotation.js of the src tree, its controller, validators and
\* routes. Amounts of this model are integers in units of 1/Percent.
ModelCatalog ==
    [p \in {1, 2} |-> [price |-> 10 * p, isActive |-> p = 1]]

QItem(pid, q, p) == [productId |-> pid, quantity |-> q, price |-> p]

\* A body: items (kind and list), appliedDiscount, and the fields of the
\* schema a client may send along.
QBody(k, its, ad, qn, tp, fp) ==
    [itemsKind |-> k, items |-> its, appliedDiscount |-> ad,
     quotationNumber |-> qn, totalPrice |-> tp, finalPrice |-> fp]

Answer(op, status, b) ==
    [op |-> op, status |-> status, before |-> Len(qdocs),
     itemsKind |-> b.itemsKind, itemCount |-> Len(b.items)]

\* pre('save'), lines 115-122.
RECURSIVE totalPriceOf(_)
totalPriceOf(items) ==
    IF items = <<>> THEN 0
    ELSE Head(items).price * Head(items).quantity * Percent
            + totalPriceOf(Tail(items))

discountAmountFor(totalPrice, appliedDiscount) ==
    (totalPrice \div Percent) * appliedDiscount

preSave(doc) ==
    LET totalPrice == totalPriceOf(doc.items)
        discountAmount == discountAmountFor(totalPrice, doc.appliedDiscount)
    IN  [doc EXCEPT !.totalPrice = Some(totalPrice),
                    !.discountAmount = discountAmount,
                    !.finalPrice = Some(totalPrice - discountAmount)]

\* quotationSchema.status, line 63: the enum.
StatusEnum == {"draft", "pending", "approved", "rejected"}

\* The validators of quotationItemSchema and quotationSchema, which run
\* before the pre('save') middleware.
itemSchemaValid(item) == item.quantity >= 1 /\ item.price >= 0

schemaValid(doc) ==
    /\ IsSome(doc.quotationNumber)
    /\ IsSome(doc.totalPrice) /\ Val(doc.totalPrice) >= 0
    /\ IsSome(doc.finalPrice) /\ Val(doc.finalPrice) >= 0
    /\ doc.appliedDiscount >= 0 /\ doc.appliedDiscount <= 100
    /\ doc.discountAmount >= 0
    /\ doc.status \in StatusEnum
    /\ \A i \in DOMAIN doc.items : itemSchemaValid(doc.items[i])

\* validateQuotation of the validation middleware.
validateQuotation(b) ==
    /\ b.itemsKind = "array"
    /\ Len(b.items) >= 1
    /\ \A i \in DOMAIN b.items :
        b.items[i].quantity >= 1 /\ b.items[i].price >= 0
    /\ IsSome(b.appliedDiscount) =>
        (Val(b.appliedDiscount) >= 0 /\ Val(b.appliedDiscount) <= 100)

\* createQuotation lines 98-114: every referenced product exists and is active.
referencedProductsExist(items) ==
    LET productIds == {i \in DOMAIN items : IsSome(items[i].productId)}
        existing == {Val(items[i].productId) : i \in productIds}
                        \cap {p \in DOMAIN ModelCatalog : ModelCatalog[p].isActive}
    IN  Cardinality(productIds) > 0 =>
            Cardinality(existing) = Cardinality(productIds)

\* new Quotation(data): the schema's paths with their defaults.
documentOf(items, appliedDiscount, qn, tp, fp) ==
    [quotationNumber |-> qn, items |-> items,
     totalPrice |-> tp,
     appliedDiscount |-> IF IsSome(appliedDiscount) THEN Val(appliedDiscount)
                         ELSE 0,
     discountAmount |-> 0, finalPrice |-> fp, status |-> "draft"]

\* next(error): the answer of the error-handling middleware server.js mounts
\* last, src/middleware/errorHandler, which is not among the sources. It
\* answers a client error or a server error.
ErrorStatuses == {400, 500}

\* Quotation.create(data): validate, pre('save'), insert.
created(docs, doc) ==
    IF schemaValid(doc) THEN Append(docs, preSave(doc)) ELSE docs

\* doc.save() of a loaded and changed document.
saved(docs, id, doc) ==
    IF schemaValid(doc) THEN [docs EXCEPT ![id] = preSave(doc)] ELSE docs

\* POST /api/quotations: validateQuotation, then createQuotation.
ModelCreateQuotation(b) ==
    /\ deployment = "model"
    /\ Len(qdocs) < MaxDocs
    /\ \E es \in ErrorStatuses :
       IF ~validateQuotation(b)
       THEN /\ qdocs' = qdocs
            /\ last' = Answer("createQuotation", 400, b)
       ELSE IF ~referencedProductsExist(b.items)
       THEN /\ qdocs' = qdocs
            /\ last' = Answer("createQuotation", 400, b)
       ELSE LET doc == documentOf(b.items, b.appliedDiscount,
                                  b.quotationNumber, b.totalPrice,
                                  b.finalPrice)
            IN  /\ qdocs' = created(qdocs, doc)
                /\ last' = Answer("createQuotation",
                                  IF schemaValid(doc) THEN 201 ELSE es, b)
    /\ UNCHANGED <<deployment, vars, legacyVars, calcVars, ocrVars>>

\* POST /api/quotations/from-ocr: createQuotationFromOCR.
CreateQuotationFromOCR(b) ==
    /\ deployment = "model"
    /\ Len(qdocs) < MaxDocs
    /\ \E es \in ErrorStatuses :
       IF b.itemsKind # "array" \/ Len(b.items) = 0
       THEN /\ qdocs' = qdocs
            /\ last' = Answer("createQuotationFromOCR", 400, b)
       ELSE LET doc == documentOf(b.items, b.appliedDiscount, None, None, None)
            IN  /\ qdocs' = created(qdocs, doc)
                /\ last' = Answer("createQuotationFromOCR",
                                  IF schemaValid(doc) THEN 201 ELSE es, b)
    /\ UNCHANGED <<deployment, vars, legacyVars, calcVars, ocrVars>>

\* POST /api/quotations/:id/items: addItemToQuotation and addItem.
AddItemToQuotation(id, item) ==
    /\ deployment = "model"
    /\ id \in DOMAIN qdocs
    /\ Len(qdocs[id].items) < MaxItems
    /\ \E es \in ErrorStatuses :
       LET productOk ==
            IsSome(item.productId) =>
                /\ Val(item.productId) \in DOMAIN ModelCatalog
                /\ ModelCatalog[Val(item.productId)].isActive
           doc == [qdocs[id] EXCEPT !.items = Append(@, item)]
       IN  IF ~productOk
           THEN /\ qdocs' = qdocs
                /\ last' = [NoAnswer EXCEPT !.op = "addItem", !.status = 400,
                                            !.before = Len(qdocs)]
           ELSE /\ qdocs' = saved(qdocs, id, doc)
                /\ last' = [NoAnswer EXCEPT !.op = "addItem",
                                !.status = IF schemaValid(doc) THEN 200 ELSE es,
                                !.before = Len(qdocs)]
    /\ UNCHANGED <<deployment, vars, legacyVars, calcVars, ocrVars>>

\* PUT /api/quotations/:id/items/:itemId: updateQuotationItem and updateItem.
UpdateQuotationItem(id, itemId, quantity) ==
    /\ deployment = "model"
    /\ id \in DOMAIN qdocs
    /\ \E es \in ErrorStatuses :
       IF itemId \notin DOMAIN qdocs[id].items
       THEN /\ qdocs' = qdocs
            /\ last' = [NoAnswer EXCEPT !.op = "updateItem", !.status = es,
                                        !.before = Len(qdocs)]
       ELSE LET doc == [qdocs[id] EXCEPT !.items[itemId].quantity = quantity]
            IN  /\ qdocs' = saved(qdocs, id, doc)
                /\ last' = [NoAnswer EXCEPT !.op = "updateItem",
                                !.status = IF schemaValid(doc) THEN 200 ELSE es,
                                !.before = Len(qdocs)]
    /\ UNCHANGED <<deployment, vars, legacyVars, calcVars, ocrVars>>

\* DELETE /api/quotations/:id/items/:itemId: removeQuotationItem and removeItem.
RemoveQuotationItem(id, itemId) ==
    /\ deployment = "model"
    /\ id \in DOMAIN qdocs
    /\ \E es \in ErrorStatuses :
       IF itemId \notin DOMAIN qdocs[id].items
       THEN /\ qdocs' = qdocs
            /\ last' = [NoAnswer EXCEPT !.op = "removeItem", !.status = es,
                                        !.before = Len(qdocs)]
       ELSE LET items == qdocs[id].items
                doc == [qdocs[id] EXCEPT !.items =
                            SubSeq(items, 1, itemId - 1)
                                \o SubSeq(items, itemId + 1, Len(items))]
            IN  /\ qdocs' = saved(qdocs, id, doc)
                /\ last' = [NoAnswer EXCEPT !.op = "removeItem",
                                !.status = IF schemaValid(doc) THEN 200 ELSE es,
                                !.before = Len(qdocs)]
    /\ UNCHANGED <<deployment, vars, legacyVars, calcVars, ocrVars>>

\* POST /api/quotations/:id/duplicate: duplicateQuotation.
DuplicateQuotation(id) ==
    /\ deployment = "model"
    /\ id \in DOMAIN qdocs
    /\ Len(qdocs) < MaxDocs + 1
    /\ \E es \in ErrorStatuses :
       LET doc == documentOf(qdocs[id].items, Some(qdocs[id].appliedDiscount),
                             None, None, None)
       IN  /\ qdocs' = created(qdocs, doc)
           /\ last' = [NoAnswer EXCEPT !.op = "duplicate",
                            !.status = IF schemaValid(doc) THEN 201 ELSE es,
                            !.before = Len(qdocs)]
    /\ UNCHANGED <<deployment, vars, legacyVars, calcVars, ocrVars>>

\* PUT /api/quotations/:id: validateQuotationUpdate, then updateQuotation,
\* which is findByIdAndUpdate(id, req.body, {runValidators: true}): the
\* fields of the body are set and no save middleware runs.
validateQuotationUpdate(u) ==
    /\ IsSome(u.status) =>
        Val(u.status) \in {"draft", "pending", "approved", "rejected"}
    /\ IsSome(u.appliedDiscount) =>
        (Val(u.appliedDiscount) >= 0 /\ Val(u.appliedDiscount) <= 100)

updateValidatorsPass(u) ==
    /\ IsSome(u.status) => Val(u.status) \in StatusEnum
    /\ IsSome(u.totalPrice) => Val(u.totalPrice) >= 0
    /\ IsSome(u.items) =>
        \A i \in DOMAIN Val(u.items) : itemSchemaValid(Val(u.items)[i])

findByIdAndUpdate(doc, u) ==
    [doc EXCEPT
        !.appliedDiscount = IF IsSome(u.appliedDiscount)
                            THEN Val(u.appliedDiscount) ELSE @,
        !.status = IF IsSome(u.status) THEN Val(u.status) ELSE @,
        !.totalPrice = IF IsSome(u.totalPrice) THEN u.totalPrice ELSE @,
        !.items = IF IsSome(u.items) THEN Val(u.items) ELSE @]

Update(ad, tp, its, st) ==
    [appliedDiscount |-> ad, totalPrice |-> tp, items |-> its, status |-> st]

ModelUpdateQuotation(id, u) ==
    /\ deployment = "model"
    /\ id \in DOMAIN qdocs
    /\ IF validateQuotationUpdate(u) /\ updateValidatorsPass(u)
       THEN /\ qdocs' = [qdocs EXCEPT ![id] = findByIdAndUpdate(@, u)]
            /\ last' = [NoAnswer EXCEPT !.op = "updateQuotation",
                            !.status = 200, !.before = Len(qdocs)]
       ELSE /\ qdocs' = qdocs
            /\ last' = [NoAnswer EXCEPT !.op = "updateQuotation",
                            !.status = 400, !.before = Len(qdocs)]
    /\ UNCHANGED <<deployment, vars, legacyVars, calcVars, ocrVars>>

\* The requests of the model's specification.
QItemSet == {QItem(None, 1, 10), QItem(Some(1), 2, 25)}

QBodies ==
    {QBody("array", its, ad, qn, tp, fp) :
        its \in ListsUpTo(QItemSet, MaxItems),
        ad \in {None, Some(10), Some(150)},
        qn \in {None, Some(7)},
        tp \in {None, Some(0)},
        fp \in {Some(0)}}

Updates ==
    {Update(ad, tp, its, None) :
        ad \in {None, Some(50), Some(150)},
        tp \in {None, Some(100)},
        its \in {None, Some(<<QItem(None, 3, 10)>>)}}
    \cup {Update(None, None, None, Some(st)) : st \in {"pending", "sent"}}

InitModel ==
    /\ ServiceIdle
    /\ LegacyIdle
    /\ CalcIdle
    /\ ModelIdle
    /\ OcrIdle
    /\ deployment = "model"

ModelNext ==
    \/ \E b \in QBodies : ModelCreateQuotation(b)
    \/ \E b \in QBodies : CreateQuotationFromOCR(b)
    \/ \E id \in 1..MaxDocs : \E item \in QItemSet \cup {QItem(Some(2), 1, 20),
                                                        QItem(None, 0, 10)} :
            AddItemToQuotation(id, item)
    \/ \E id \in 1..MaxDocs : \E itemId \in 1..(MaxItems + 1) :
        \E q \in {0, 4} : UpdateQuotationItem(id, itemId, q)
    \/ \E id \in 1..MaxDocs : \E itemId \in 1..(MaxItems + 1) :
            RemoveQuotationItem(id, itemId)
    \/ \E id \in 1..MaxDocs : DuplicateQuotation(id)
    \/ \E id \in 1..MaxDocs : \E u \in Updates : ModelUpdateQuotation(id, u)

SpecModel == InitModel /\ [][ModelNext]_allVars

\* ------------------------------------------- what the servers accept
\* One server is deployed, the one of the quotation service or the one of
\* the model with pre('save'); it is sent creation requests of every shape,
\* one after another.
IntakeItems ==
    {Item(1, 5, None), Item(2, 1, Some(10)), Item(2, 0, None),
     Item(1, 0 - 1, None), Item(UnknownProduct, 1, None), Item(3, 1, None)}

IntakeBodies ==
    {Body(TRUE, "array", its) : its \in ListsUpTo(IntakeItems, MaxItems)}
        \cup {Body(TRUE, "missing", <<>>), Body(TRUE, "notArray", <<>>),
              Body(FALSE, "array", <<Item(1, 5, None)>>)}

IntakeQItems == QItemSet \cup {QItem(None, 0, 10), QItem(Some(2), 1, 20)}

IntakeQBodies ==
    {QBody("array", its, ad, Some(7), Some(0), Some(0)) :
        its \in ListsUpTo(IntakeQItems, MaxItems),
        ad \in {None, Some(10), Some(150)}}
        \cup {QBody(k, <<>>, None, qn, Some(0), Some(0)) :
                k \in {"missing", "notArray"}, qn \in {None, Some(7)}}
        \cup {QBody("array", <<QItem(None, 1, 10)>>, None, None, None, None)}

IntakeRequests == 1..NumIntake

InitIntake ==
    /\ ServiceIdle
    /\ LegacyIdle
    /\ CalcIdle
    /\ ModelIdle
    /\ OcrIdle
    /\ deployment \in {"service", "model"}

IntakeNext ==
    \/ /\ deployment = "service"
       /\ NoneInFlight
       /\ \E r \in IntakeRequests : \E b \in IntakeBodies :
            CreateQuotation(r, b)
    \/ \E r \in IntakeRequests : FindProducts(r)
    \/ \E r \in IntakeRequests : FindLatest(r)
    \/ \E r \in IntakeRequests : Save(r)
    \/ \E b \in IntakeQBodies : ModelCreateQuotation(b)
    \/ \E b \in IntakeQBodies : CreateQuotationFromOCR(b)

SpecIntake == InitIntake /\ [][IntakeNext]_allVars

\* ------------------------------------ SmartProductMatcher.parseOCRText
\* A string is the sequence of its characters; a character is a string of
\* length one, the en dash being written EnDash.
Lower == <<"a", "b", "c", "d", "e", "f", "g", "h", "i", "j", "k", "l", "m", "n", "o", "p", "q", "r", "s", "t", "u", "v", "w", "x", "y", "z">>
Upper == <<"A", "B", "C", "D", "E", "F", "G", "H", "I", "J", "K", "L", "M", "N", "O", "P", "Q", "R", "S", "T", "U", "V", "W", "X", "Y", "Z">>
Digits == <<"0", "1", "2", "3", "4", "5", "6", "7", "8", "9">>
EnDash == "u2013"

IndexIn(seq, c) == CHOOSE i \in DOMAIN seq : seq[i] = c
IsIn(seq, c) == \E i \in DOMAIN seq : seq[i] = c
IsDigit(c) == IsIn(Digits, c)
IsLetter(c) == IsIn(Lower, c) \/ IsIn(Upper, c)
\* \s and \w of the regular expressions.
IsSpace(c) == c \in {" ", "\n"}
IsWord(c) == IsLetter(c) \/ IsDigit(c) \/ c = "_"

toLowerCase(s) ==
    [i \in DOMAIN s |-> IF IsIn(Upper, s[i]) THEN Lower[IndexIn(Upper, s[i])]
                        ELSE s[i]]

trim(s) ==
    LET kept == {i \in DOMAIN s : ~IsSpace(s[i])}
    IN  IF kept = {} THEN <<>>
        ELSE SubSeq(s, CHOOSE i \in kept : \A j \in kept : i <= j,
                       CHOOSE i \in kept : \A j \in kept : i >= j)

\* text.split('\n')
RECURSIVE split(_)
split(text) ==
    LET breaks == {i \in DOMAIN text : text[i] = "\n"}
    IN  IF breaks = {} THEN <<text>>
        ELSE LET i == CHOOSE b \in breaks : \A c \in breaks : b <= c
             IN  <<SubSeq(text, 1, i - 1)>>
                    \o split(SubSeq(text, i + 1, Len(text)))

\* parseInt of a run of digits.
RECURSIVE parseDigits(_)
parseDigits(ds) ==
    IF ds = <<>> THEN 0
    ELSE 10 * parseDigits(SubSeq(ds, 1, Len(ds) - 1))
            + (IndexIn(Digits, ds[Len(ds)]) - 1)

\* The end of the run of \s* or \d+ that starts at position i: the first
\* position from i on that is past the string or holds another character.
spacesEnd(s, i) ==
    CHOOSE j \in i..(Len(s) + 1) :
        /\ \A m \in i..(j - 1) : IsSpace(s[m])
        /\ (j = Len(s) + 1 \/ ~IsSpace(s[j]))

digitsEnd(s, i) ==
    CHOOSE j \in i..(Len(s) + 1) :
        /\ \A m \in i..(j - 1) : IsDigit(s[m])
        /\ (j = Len(s) + 1 \/ ~IsDigit(s[j]))

Least(S) == CHOOSE k \in S : \A m \in S : k <= m

UnitWords == {<<"n", "o">>, <<"n", "o", "s">>, <<"p", "c">>, <<"p", "c", "s">>, <<"u", "n", "i", "t">>, <<"u", "n", "i", "t", "s">>}

\* /^(.+?)\s*[-–x]\s*(\d+)\s*(?:nos?|pcs?|units?)?/i: the shortest
\* first group after which a separator and a digit follow.
productThenSeparatorQuantity(line) ==
    LET after(k) == spacesEnd(line, k + 1)
        digitAt(k) == spacesEnd(line, after(k) + 1)
        ks == {k \in 1..Len(line) :
                /\ after(k) <= Len(line)
                /\ line[after(k)] \in {"-", EnDash, "x", "X"}
                /\ digitAt(k) <= Len(line)
                /\ IsDigit(line[digitAt(k)])}
    IN  IF ks = {} THEN None
        ELSE LET k == Least(ks)
             IN  Some(<<SubSeq(line, 1, k),
                        SubSeq(line, digitAt(k),
                               digitsEnd(line, digitAt(k)) - 1)>>)

\* /^(\d+)\s*[x-]\s*(.+?)$/i
quantityThenProduct(line) ==
    LET d == digitsEnd(line, 1)
        sep == spacesEnd(line, d)
        rest == spacesEnd(line, sep + 1)
    IN  IF /\ d > 1
           /\ sep <= Len(line)
           /\ line[sep] \in {"x", "X", "-"}
           /\ rest <= Len(line)
        THEN Some(<<SubSeq(line, 1, d - 1), SubSeq(line, rest, Len(line))>>)
        ELSE None

\* /^(.+?)\s+(\d+)\s*(?:nos?|pcs?|units?)?$/i
productSpaceQuantity(line) ==
    LET digitAt(k) == spacesEnd(line, k + 1)
        tail(k) == SubSeq(line, spacesEnd(line, digitsEnd(line, digitAt(k))),
                          Len(line))
        ks == {k \in 1..Len(line) :
                /\ k + 1 <= Len(line)
                /\ IsSpace(line[k + 1])
                /\ digitAt(k) <= Len(line)
                /\ IsDigit(line[digitAt(k)])
                /\ toLowerCase(tail(k)) \in UnitWords \cup {<<>>}}
    IN  IF ks = {} THEN None
        ELSE LET k == Least(ks)
             IN  Some(<<SubSeq(line, 1, k),
                        SubSeq(line, digitAt(k),
                               digitsEnd(line, digitAt(k)) - 1)>>)

\* /^([A-Z0-9\s.]+)\s*[-–]\s*(.+)$/i: the first character outside the
\* class of the first group is the dash, and something follows it.
catalogNumberDescription(line) ==
    LET inClass(c) == IsLetter(c) \/ IsDigit(c) \/ IsSpace(c) \/ c = "."
        outside == {i \in DOMAIN line : ~inClass(line[i])}
    IN  IF outside = {} THEN None
        ELSE LET f == Least(outside)
             IN  IF f > 1 /\ line[f] \in {"-", EnDash} /\ f < Len(line)
                 THEN Some(<<SubSeq(line, 1, f - 1),
                             SubSeq(line, spacesEnd(line, f + 1), Len(line))>>)
                 ELSE None

\* /^(.+)$/i
wholeLine(line) ==
    IF Len(line) > 0 THEN Some(<<line>>) ELSE None

\* The patterns array, in order.
NumPatterns == 5

patternMatch(n, line) ==
    CASE n = 1 -> productThenSeparatorQuantity(line)
      [] n = 2 -> quantityThenProduct(line)
      [] n = 3 -> productSpaceQuantity(line)
      [] n = 4 -> catalogNumberDescription(line)
      [] n = 5 -> wholeLine(line)

\* lines 59-72: the product text and the quantity taken from a match. The
\* second pattern's source starts with ^(\d+); the first and the third
\* contain \d+.
extract(n, match) ==
    IF n = 2
    THEN [productText |-> trim(match[2]), quantity |-> parseDigits(match[1])]
    ELSE IF n \in {1, 3}
    THEN [productText |-> trim(match[1]),
          quantity |-> IF parseDigits(match[2]) = 0 THEN 1
                       ELSE parseDigits(match[2])]
    ELSE [productText |-> trim(match[1]), quantity |-> 1]

\* cleanProductText, lines 109-115.
RECURSIVE collapseSpaces(_)
collapseSpaces(s) ==
    IF s = <<>> THEN <<>>
    ELSE IF IsSpace(Head(s))
    THEN <<" ">> \o collapseSpaces(SubSeq(s, spacesEnd(s, 1), Len(s)))
    ELSE <<Head(s)>> \o collapseSpaces(Tail(s))

cleanProductText(text) ==
    LET kept == [i \in DOMAIN text |->
                    IF IsWord(text[i]) \/ IsSpace(text[i])
                            \/ text[i] \in {".", "-"}
                    THEN text[i] ELSE " "]
    IN  toLowerCase(trim(collapseSpaces(kept)))

\* isNoise, lines 122-131.
HeaderWords == 
    {<<"t", "o", "t", "a", "l">>, <<"s", "u", "b", "t", "o", "t", "a", "l">>, <<"a", "m", "o", "u", "n", "t">>, <<"p", "r", "i", "c", "e">>, <<"q", "t", "y">>, <<"q", "u", "a", "n", "t", "i", "t", "y">>, <<"s", "n", "o">>, <<"s", ".", "n", "o">>, <<"s", "r", "n", "o">>, <<"s", "r", ".", "n", "o">>}
        \cup {<<"f", "r", "o", "m">>, <<"t", "o">>, <<"p", "a", "g", "e">>, <<"d", "a", "t", "e">>}

isNoise(line) ==
    LET t == trim(line)
    IN  \/ toLowerCase(t) \in HeaderWords
        \/ t # <<>> /\ \A i \in DOMAIN t : IsDigit(t[i])
        \/ t # <<>> /\ \A i \in DOMAIN t : t[i] \in {"-", "=", "_"}

\* lines 53-98: the items pushed for line i (already trimmed): the first
\* pattern that matches with a product text of more than 2 characters, else
\* the line itself if it is not noise. requiresManualReview is FALSE where
\* the object has no such property.
parsedLine(line, i) ==
    LET pushing == {n \in 1..NumPatterns :
                        /\ IsSome(patternMatch(n, line))
                        /\ Len(extract(n, Val(patternMatch(n, line))).productText) > 2}
    IN  IF pushing # {}
        THEN LET e == extract(Least(pushing), Val(patternMatch(Least(pushing), line)))
             IN  <<[originalText |-> line,
                    productText |-> cleanProductText(e.productText),
                    quantity |-> e.quantity,
                    lineNumber |-> i,
                    matchedByOCR |-> TRUE,
                    requiresManualReview |-> FALSE]>>
        ELSE IF Len(line) > 2 /\ ~isNoise(line)
        THEN <<[originalText |-> line,
                productText |-> cleanProductText(line),
                quantity |-> 1,
                lineNumber |-> i,
                matchedByOCR |-> FALSE,
                requiresManualReview |-> TRUE]>>
        ELSE <<>>

\* line 35: the lines kept.
keptLines(text) == SelectSeq(split(text), LAMBDA line : Len(trim(line)) > 2)

RECURSIVE parsedFrom(_, _)
parsedFrom(lines, i) ==
    IF i > Len(lines) THEN <<>>
    ELSE parsedLine(trim(lines[i]), i) \o parsedFrom(lines, i + 1)

parseOCRText(text) == parsedFrom(keptLines(text), 1)

\* The texts of the parser's specification: up to MaxTokens of these pieces
\* in a row.
OcrTokens == 
    {<<"W", "i", "r", "e">>, <<" ", "x", " ">>, <<"-">>, <<" ">>, <<"2">>, <<"0">>, <<"\n">>, <<"t", "o", "t", "a", "l">>, <<"a", "b">>, <<"p", "c", "s">>, <<"#">>}

RECURSIVE TextsUpTo(_)
TextsUpTo(n) ==
    IF n = 0 THEN {<<>>}
    ELSE LET shorter == TextsUpTo(n - 1)
         IN  shorter \cup {t \o token : t \in shorter, token \in OcrTokens}

InitParse ==
    /\ ServiceIdle
    /\ LegacyIdle
    /\ CalcIdle
    /\ ModelIdle
    /\ deployment = "service"
    /\ PipeIdle
    /\ ocrText \in TextsUpTo(MaxTokens)
    /\ parsedItems = None
    /\ productDocs = <<>>
    /\ matcherProducts = <<>>
    /\ fuse = None
    /\ productText = <<>>
    /\ matches = None
    /\ processed = None

ParseOCRText ==
    /\ parsedItems = None
    /\ parsedItems' = Some(parseOCRText(ocrText))
    /\ UNCHANGED <<ocrText, matchVars, pipeVars, vars, legacyVars, calcVars, modelVars>>

SpecParse == InitParse /\ [][ParseOCRText]_allVars

\* --------------------------- SmartProductMatcher: findMatches, processOCRText
\* Confidences and scores are integers in units of 1/Percent.
FuseThreshold == 40
ExactConfidence == 100
CategoryConfidence == 30
KeywordConfidence == 40
AcceptAbove == 70
ReviewBelow == 80

max(a, b) == IF a >= b THEN a ELSE b

\* String.prototype.includes
includes(s, t) ==
    \E i \in 1..(Len(s) - Len(t) + 1) : SubSeq(s, i, i + Len(t) - 1) = t

\* The documents of the Product collection of the specification: name,
\* optional catalogNumber and description, categories, price, isActive.
ProductDoc(id, name, catalogNumber, description, categories, price, isActive) ==
    [id |-> id, name |-> name, catalogNumber |-> catalogNumber,
     description |-> description, categories |-> categories,
     price |-> price, isActive |-> isActive]

ProductPool ==
    {ProductDoc(1, <<"F", "a", "n">>, Some(<<"F", "1">>), Some(<<"6", "a", " ", "f", "a", "n">>), <<<<"F", "a", "n", "s">>>>, 900, TRUE),
     ProductDoc(2, <<"f", "a", "n">>, None, None, <<>>, 50, TRUE),
     ProductDoc(3, <<"B", "e", "l", "l">>, Some(<<"B", "6">>), Some(<<"d", "o", "o", "r", " ", "b", "e", "l", "l">>), <<<<"B", "u", "z", "z", "e", "r">>>>, 70, TRUE),
     ProductDoc(4, <<"L", "a", "m", "p">>, Some(<<"L", "1">>), Some(<<"l", "a", "m", "p">>), <<<<"L", "i", "g", "h", "t">>>>, 30, FALSE)}

\* The collections: the documents of the pool, each at most once, in any
\* order.
ProductCollections ==
    {c \in ListsUpTo(ProductPool, Cardinality(ProductPool)) :
        \A i, j \in DOMAIN c : i # j => c[i] # c[j]}

\* initialize, lines 23-27: Product.find({ isActive: true }).lean()
activeProducts(docs) == SelectSeq(docs, LAMBDA p : p.isActive)

\* What findMatches returns; error names the exception it ended with
\* instead, if any.
NoResults ==
    [exactMatch |-> None, fuzzyMatches |-> <<>>, categoryMatches |-> <<>>,
     keywordMatches |-> <<>>, confidence |-> 0, error |-> "none"]

Thrown == [NoResults EXCEPT !.error = "TypeError"]

\* lines 148-151: this.products.find(...). The scan stops at the first
\* product that matches, or whose name differs and whose catalogNumber is
\* undefined, where catalogNumber.toLowerCase() throws.
nameEquals(p, text) == toLowerCase(p.name) = toLowerCase(text)

catalogNumberEquals(p, text) ==
    /\ IsSome(p.catalogNumber)
    /\ toLowerCase(Val(p.catalogNumber)) = toLowerCase(text)

exactScan(prods, text) ==
    LET stops == {i \in DOMAIN prods :
                    \/ nameEquals(prods[i], text)
                    \/ prods[i].catalogNumber = None
                    \/ catalogNumberEquals(prods[i], text)}
    IN  IF stops = {} THEN [found |-> None, thrown |-> FALSE]
        ELSE LET p == prods[Least(stops)]
             IN  IF nameEquals(p, text) \/ catalogNumberEquals(p, text)
                 THEN [found |-> Some(p), thrown |-> FALSE]
                 ELSE [found |-> None, thrown |-> TRUE]

\* findCategoryMatches, lines 192-229.
categoryKeywords ==
    <<[category |-> <<"s", "w", "i", "t", "c", "h">>,
       keywords |-> <<<<"s", "w", "i", "t", "c", "h">>, <<"s", "w", "i", "t", "c", "h", "e", "s">>>>],
      [category |-> <<"s", "o", "c", "k", "e", "t">>,
       keywords |-> <<<<"s", "o", "c", "k", "e", "t">>, <<"s", "o", "c", "k", "e", "t", "s">>, <<"o", "u", "t", "l", "e", "t">>>>],
      [category |-> <<"l", "i", "g", "h", "t">>,
       keywords |-> <<<<"l", "i", "g", "h", "t">>, <<"l", "i", "g", "h", "t", "i", "n", "g">>, <<"l", "a", "m", "p">>, <<"b", "u", "l", "b">>>>],
      [category |-> <<"f", "a", "n">>,
       keywords |-> <<<<"f", "a", "n">>, <<"r", "e", "g", "u", "l", "a", "t", "o", "r">>>>],
      [category |-> <<"d", "i", "m", "m", "e", "r">>,
       keywords |-> <<<<"d", "i", "m", "m", "e", "r">>, <<"d", "i", "m", "m", "i", "n", "g">>>>],
      [category |-> <<"i", "n", "d", "i", "c", "a", "t", "o", "r">>,
       keywords |-> <<<<"i", "n", "d", "i", "c", "a", "t", "o", "r">>, <<"l", "e", "d">>>>],
      [category |-> <<"b", "u", "z", "z", "e", "r">>,
       keywords |-> <<<<"b", "u", "z", "z", "e", "r">>, <<"b", "e", "l", "l">>, <<"a", "l", "a", "r", "m">>>>],
      [category |-> <<"u", "s", "b">>,
       keywords |-> <<<<"u", "s", "b">>, <<"c", "h", "a", "r", "g", "e", "r">>>>],
      [category |-> <<"t", "e", "l", "e", "p", "h", "o", "n", "e">>,
       keywords |-> <<<<"t", "e", "l", "e", "p", "h", "o", "n", "e">>, <<"p", "h", "o", "n", "e">>, <<"r", "j", "1", "1">>>>],
      [category |-> <<"d", "a", "t", "a">>,
       keywords |-> <<<<"d", "a", "t", "a">>, <<"e", "t", "h", "e", "r", "n", "e", "t">>, <<"r", "j", "4", "5">>, <<"n", "e", "t", "w", "o", "r", "k">>>>],
      [category |-> <<"t", "v">>,
       keywords |-> <<<<"t", "v">>, <<"t", "e", "l", "e", "v", "i", "s", "i", "o", "n">>, <<"c", "o", "a", "x", "i", "a", "l">>>>],
      [category |-> <<"a", "u", "d", "i", "o">>,
       keywords |-> <<<<"a", "u", "d", "i", "o">>, <<"s", "p", "e", "a", "k", "e", "r">>, <<"m", "u", "s", "i", "c">>>>]>>

first(s, n) == SubSeq(s, 1, IF Len(s) < n THEN Len(s) ELSE n)

RECURSIVE categoryMatchesFrom(_, _, _)
categoryMatchesFrom(prods, lowerText, k) ==
    IF k > Len(categoryKeywords) THEN <<>>
    ELSE LET category == categoryKeywords[k].category
             keywords == categoryKeywords[k].keywords
             categoryProducts ==
                SelectSeq(prods, LAMBDA p :
                    \/ \E c \in DOMAIN p.categories :
                            includes(toLowerCase(p.categories[c]), category)
                    \/ includes(toLowerCase(p.name), category))
             here ==
                IF /\ \E i \in DOMAIN keywords : includes(lowerText, keywords[i])
                   /\ Len(categoryProducts) > 0
                THEN <<[category |-> category,
                        products |-> first(categoryProducts, 10),
                        matchedKeywords |->
                            SelectSeq(keywords,
                                      LAMBDA w : includes(lowerText, w))]>>
                ELSE <<>>
         IN  here \o categoryMatchesFrom(prods, lowerText, k + 1)

findCategoryMatches(prods, text) ==
    categoryMatchesFrom(prods, toLowerCase(text), 1)

\* findKeywordMatches, lines 236-270. For a product without description,
\* description.toLowerCase() throws unless its name includes the first
\* keyword found.
technicalKeywords ==
    <<[type |-> "amperage",
       keywords |-> <<<<"6", "a">>, <<"1", "6", "a">>, <<"2", "5", "a">>, <<"1", "3", "a">>>>],
      [type |-> "modules",
       keywords |-> <<<<"1", " ", "m", "o", "d", "u", "l", "e">>, <<"2", " ", "m", "o", "d", "u", "l", "e">>, <<"3", " ", "m", "o", "d", "u", "l", "e">>, <<"4", " ", "m", "o", "d", "u", "l", "e">>>>],
      [type |-> "way",
       keywords |-> <<<<"o", "n", "e", "-", "w", "a", "y">>, <<"t", "w", "o", "-", "w", "a", "y">>, <<"o", "n", "e", " ", "w", "a", "y">>, <<"t", "w", "o", " ", "w", "a", "y">>>>],
      [type |-> "voltage",
       keywords |-> <<<<"2", "2", "0", "v">>, <<"1", "1", "0", "v">>, <<"2", "4", "0", "v">>>>],
      [type |-> "wattage",
       keywords |-> <<<<"8", "0", "w">>, <<"1", "0", "0", "w">>, <<"5", "0", "0", "w">>>>]>>

foundKeywords(lowerText, k) ==
    SelectSeq(technicalKeywords[k].keywords, LAMBDA w : includes(lowerText, w))

keywordScanThrows(prods, text) ==
    \E k \in DOMAIN technicalKeywords :
        LET found == foundKeywords(toLowerCase(text), k)
        IN  /\ Len(found) > 0
            /\ \E i \in DOMAIN prods :
                /\ prods[i].description = None
                /\ ~includes(toLowerCase(prods[i].name), found[1])

RECURSIVE keywordMatchesFrom(_, _, _)
keywordMatchesFrom(prods, lowerText, k) ==
    IF k > Len(technicalKeywords) THEN <<>>
    ELSE LET found == foundKeywords(lowerText, k)
             keywordProducts ==
                SelectSeq(prods, LAMBDA p :
                    \E i \in DOMAIN found :
                        \/ includes(toLowerCase(p.name), found[i])
                        \/ /\ IsSome(p.description)
                           /\ includes(toLowerCase(Val(p.description)), found[i]))
             here ==
                IF Len(found) > 0 /\ Len(keywordProducts) > 0
                THEN <<[type |-> technicalKeywords[k].type,
                        keywords |-> found,
                        products |-> first(keywordProducts, 10)]>>
                ELSE <<>>
         IN  here \o keywordMatchesFrom(prods, lowerText, k + 1)

findKeywordMatches(prods, text) ==
    keywordMatchesFrom(prods, toLowerCase(text), 1)

\* The fuzzy matches with 1 + score for the confidence.
fuzzyMatchesAddingScore(fuzzyResults) ==
    LET top == SubSeq(fuzzyResults, 1, IF Len(fuzzyResults) < 5
                                       THEN Len(fuzzyResults) ELSE 5)
    IN  [i \in DOMAIN top |->
            [product |-> top[i].item,
             confidence |-> Percent + top[i].score,
             score |-> top[i].score]]

\* lines 162-166: the fuzzy matches made of the results of fuse.search.
fuzzyMatchesOf(fuzzyResults) ==
    LET top == first(fuzzyResults, 5)
    IN  [i \in DOMAIN top |->
            [product |-> top[i].item,
             confidence |-> Percent - top[i].score,
             score |-> top[i].score]]

\* findMatches, lines 138-185, on this.products = prods and this.fuse =
\* fuseIndex, fuse.search answering fuzzyResults.
findMatches(prods, fuseIndex, text, fuzzyResults) ==
    LET exact == exactScan(prods, text)
        fuzzy == fuzzyMatchesOf(fuzzyResults)
        categories == findCategoryMatches(prods, text)
        keywords == findKeywordMatches(prods, text)
        afterFuzzy == IF Len(fuzzy) > 0 THEN max(0, fuzzy[1].confidence) ELSE 0
        afterCategory == IF Len(categories) > 0
                         THEN max(afterFuzzy, CategoryConfidence)
                         ELSE afterFuzzy
        afterKeyword == IF Len(keywords) > 0
                        THEN max(afterCategory, KeywordConfidence)
                        ELSE afterCategory
    IN  IF exact.thrown THEN Thrown
        ELSE IF IsSome(exact.found)
        THEN [NoResults EXCEPT !.exactMatch = exact.found,
                               !.confidence = ExactConfidence]
        ELSE IF fuseIndex = None \/ keywordScanThrows(prods, text) THEN Thrown
        ELSE [NoResults EXCEPT !.fuzzyMatches = fuzzy,
                               !.categoryMatches = categories,
                               !.keywordMatches = keywords,
                               !.confidence = afterKeyword]

\* generateSuggestions, lines 334-374.
generateSuggestions(m) ==
    (IF Len(m.fuzzyMatches) > 0
     THEN <<[type |-> "fuzzy_matches",
             options |-> [i \in DOMAIN first(m.fuzzyMatches, 3) |->
                            [product |-> m.fuzzyMatches[i].product,
                             confidence |-> m.fuzzyMatches[i].confidence]]]>>
     ELSE <<>>)
    \o (IF Len(m.categoryMatches) > 0
        THEN <<[type |-> "category_matches",
                options |-> [i \in DOMAIN m.categoryMatches |->
                    [category |-> m.categoryMatches[i].category,
                     productCount |-> Len(m.categoryMatches[i].products)]]]>>
        ELSE <<>>)
    \o (IF Len(m.keywordMatches) > 0
        THEN <<[type |-> "keyword_matches",
                options |-> [i \in DOMAIN m.keywordMatches |->
                    [type |-> m.keywordMatches[i].type,
                     keywords |-> m.keywordMatches[i].keywords,
                     productCount |-> Len(m.keywordMatches[i].products)]]]>>
        ELSE <<>>)

\* requiresReview without the test of the confidence.
requiresReviewWithoutMatch(confidence, bestMatch) == bestMatch = None

\* line 311
requiresReview(confidence, bestMatch) ==
    confidence < ReviewBelow \/ bestMatch = None

\* lines 287-314: the map callback of processOCRText.
processedItem(item, m) ==
    LET acceptFuzzy == /\ m.exactMatch = None
                       /\ Len(m.fuzzyMatches) > 0
                       /\ m.fuzzyMatches[1].confidence > AcceptAbove
        bestMatch == IF IsSome(m.exactMatch) THEN m.exactMatch
                     ELSE IF acceptFuzzy THEN Some(m.fuzzyMatches[1].product)
                     ELSE None
        confidence == IF IsSome(m.exactMatch) THEN ExactConfidence
                      ELSE IF acceptFuzzy THEN m.fuzzyMatches[1].confidence
                      ELSE m.confidence
    IN  [originalText |-> item.originalText,
         productText |-> item.productText,
         quantity |-> item.quantity,
         lineNumber |-> item.lineNumber,
         matchedByOCR |-> item.matchedByOCR,
         requiresManualReview |-> item.requiresManualReview,
         bestMatch |-> bestMatch,
         price |-> IF IsSome(bestMatch) THEN Val(bestMatch).price ELSE 0,
         confidence |-> confidence,
         allMatches |-> m,
         requiresReview |-> requiresReview(confidence, bestMatch),
         suggestions |-> generateSuggestions(m)]

\* calculateStats, lines 381-397: the counts.
calculateStats(items) ==
    LET count(T(_)) == Cardinality({i \in DOMAIN items : T(items[i])})
        exact(i) == i.confidence = ExactConfidence
        high(i) == i.confidence > ReviewBelow
        priced(i) == i.price > 0
        review(i) == i.requiresReview
    IN  [totalItems |-> Len(items),
         exactMatches |-> count(exact),
         highConfidenceMatches |-> count(high),
         itemsWithPrices |-> count(priced),
         itemsRequiringReview |-> count(review)]

\* What fuse.search may answer on an index: at most MaxFuzzy results, each
\* an indexed document with a score within the threshold, best score
\* first, no document twice.
FuseScores == {0, 25, 30, FuseThreshold}

FuseResults(index) ==
    {r \in ListsUpTo({[item |-> index[i], score |-> s] :
                        i \in DOMAIN index, s \in FuseScores}, MaxFuzzy) :
        \A i, j \in DOMAIN r :
            i < j => r[i].score <= r[j].score /\ r[i].item # r[j].item}

\* The texts of the matcher's specification.
MatchTexts == 
    {<<"f", "a", "n">>, <<"B", "E", "L", "L">>, <<"f", "a", "n", " ", "6", "a">>, <<"z", "z", "z">>}

OcrTexts == 
    {<<"F", "a", "n", " ", "x", " ", "2">>, <<"b", "e", "l", "l">>, <<"f", "a", "n", " ", "6", "a", "\n", "B", "e", "l", "l">>, <<"z", "z", "z", "\n", "f", "a", "n", " ", "6", "a">>, <<"a", "b">>}

InitMatch ==
    /\ ServiceIdle
    /\ LegacyIdle
    /\ CalcIdle
    /\ ModelIdle
    /\ deployment = "service"
    /\ PipeIdle
    /\ ocrText = <<>>
    /\ parsedItems = None
    /\ productDocs \in ProductCollections
    /\ matcherProducts = <<>>
    /\ fuse = None
    /\ productText = <<>>
    /\ matches = None
    /\ processed = None

\* No call of the matcher has returned yet.
NoCallYet == matches = None /\ processed = None

\* initialize, lines 23-27.
Initialize ==
    /\ NoCallYet
    /\ fuse = None
    /\ matcherProducts' = activeProducts(productDocs)
    /\ fuse' = Some(activeProducts(productDocs))
    /\ UNCHANGED <<productDocs, productText, matches, processed>>
    /\ UNCHANGED <<parseVars, pipeVars, vars, legacyVars, calcVars, modelVars>>

\* The answers fuse.search may give where findMatches reaches line 160:
\* the exact scan neither found a product nor threw, and this.fuse is set.
searchResults(prods, fuseIndex, text) ==
    IF exactScan(prods, text) # [found |-> None, thrown |-> FALSE]
            \/ fuseIndex = None
    THEN {<<>>}
    ELSE FuseResults(Val(fuseIndex))

\* What findMatches(text) may return.
matchOutcomes(prods, fuseIndex, text) ==
    {findMatches(prods, fuseIndex, text, fuzzyResults) :
        fuzzyResults \in searchResults(prods, fuseIndex, text)}

\* What the calls of findMatches for the parsed items from the i-th on may
\* return, in order.
RECURSIVE itemOutcomes(_, _, _, _)
itemOutcomes(prods, fuseIndex, parsed, i) ==
    IF i > Len(parsed) THEN {<<>>}
    ELSE {<<m>> \o rest :
            m \in matchOutcomes(prods, fuseIndex, parsed[i].productText),
            rest \in itemOutcomes(prods, fuseIndex, parsed, i + 1)}

\* findMatches(text)
FindMatches(text) ==
    /\ NoCallYet
    /\ \E m \in matchOutcomes(matcherProducts, fuse, text) :
        matches' = Some(m)
    /\ productText' = text
    /\ UNCHANGED <<productDocs, matcherProducts, fuse, processed>>
    /\ UNCHANGED <<parseVars, pipeVars, vars, legacyVars, calcVars, modelVars>>

\* processOCRText(text), lines 277-327: initialize if no products are
\* loaded, parse, match every item. A findMatches that throws ends the call
\* with that exception.
ProcessOCRText(text) ==
    /\ NoCallYet
    /\ LET loaded == IF Len(matcherProducts) = 0
                     THEN activeProducts(productDocs) ELSE matcherProducts
           index == IF Len(matcherProducts) = 0
                    THEN Some(activeProducts(productDocs)) ELSE fuse
           parsed == parseOCRText(text)
       IN  /\ matcherProducts' = loaded
           /\ fuse' = index
           /\ \E found \in itemOutcomes(loaded, index, parsed, 1) :
                LET items == [i \in DOMAIN parsed |->
                                processedItem(parsed[i], found[i])]
                IN  processed' =
                        IF \E i \in DOMAIN found : found[i].error # "none"
                        THEN Some([success |-> FALSE, error |-> "TypeError",
                                   parsedItems |-> 0, processedItems |-> <<>>,
                                   stats |-> calculateStats(<<>>)])
                        ELSE Some([success |-> TRUE, error |-> "none",
                                   parsedItems |-> Len(parsed),
                                   processedItems |-> items,
                                   stats |-> calculateStats(items)])
    /\ ocrText' = text
    /\ UNCHANGED <<productDocs, productText, matches, parsedItems>>
    /\ UNCHANGED <<pipeVars, vars, legacyVars, calcVars, modelVars>>

MatchNext ==
    \/ Initialize
    \/ \E text \in MatchTexts : FindMatches(text)
    \/ \E text \in OcrTexts : ProcessOCRText(text)

SpecMatch == InitMatch /\ [][MatchNext]_allVars

\* ------------------- matchingService.matchProducts and processOCRData
\* line 29 of matchProducts: bestMatch.score < 0.3
MatchBelow == 30

\* An extracted product of req.body.data; item_number may be missing.
Extracted(n, name) == [item_number |-> n, product_name |-> name]

ExtractedProducts ==
    {Extracted(n, name) : n \in {None, Some(1), Some(2)},
                          name \in {"wire", "zzz"}}

ExtractedNames == {e.product_name : e \in ExtractedProducts}

\* line 11: Product.find({ isActive: true }), the ids in order.
allActive(prods) ==
    LET ids == {p \in DOMAIN prods : prods[p].isActive}
        RECURSIVE ordered(_)
        ordered(S) == IF S = {} THEN <<>>
                      ELSE LET least == CHOOSE x \in S : \A y \in S : x <= y
                           IN  <<least>> \o ordered(S \ {least})
    IN  ordered(ids)

\* What fuse.search of matchProducts may answer on the products found: at
\* most MaxFuzzy results, best score first, no product twice, each score
\* within the threshold of line 16.
LegacyScores == {10, MatchBelow}

LegacyResults(allProducts) ==
    {r \in ListsUpTo({[item |-> allProducts[i], score |-> sc] :
                        i \in DOMAIN allProducts, sc \in LegacyScores},
                     MaxFuzzy) :
        \A i, j \in DOMAIN r :
            i < j => r[i].score <= r[j].score /\ r[i].item # r[j].item}

\* lines 23-45: the loop of matchProducts from the k-th extracted product
\* on, answers naming what fuse.search answers for a product_name.
RECURSIVE matchLoop(_, _, _, _)
matchLoop(data, answers, k, acc) ==
    IF k > Len(data) THEN acc
    ELSE LET results == answers[data[k].product_name]
             next ==
                IF Len(results) > 0
                THEN IF results[1].score < MatchBelow
                     THEN [acc EXCEPT !.matchedProducts =
                            Append(@, [extracted |-> data[k],
                                       matched |-> results[1].item,
                                       matchType |-> "fuzzy_name",
                                       score |-> results[1].score])]
                     ELSE [acc EXCEPT !.suggestions =
                            Append(@, [extracted |-> data[k],
                                       suggestions |->
                                         [i \in DOMAIN first(results, 5) |->
                                            results[i].item]])]
                ELSE [acc EXCEPT !.unmatchedProducts = Append(@, data[k])]
         IN  matchLoop(data, answers, k + 1, next)

\* matchProducts, lines 9-69; fails says that Product.find rejected.
matchProducts(data, answers, fails) ==
    IF fails
    THEN [success |-> FALSE, matchedProducts |-> <<>>,
          unmatchedProducts |-> <<>>, suggestions |-> <<>>]
    ELSE matchLoop(data, answers, 1,
                   [success |-> TRUE, matchedProducts |-> <<>>,
                    unmatchedProducts |-> <<>>, suggestions |-> <<>>])

\* processOCRData, lines 71-74 and 78: matchedProductsMap.get(key) after
\* matchedProductsMap.set(match.extracted.item_number, match.matched) for
\* every match in order; a later set replaces an earlier one.
matchedProductsMap(matchedProducts, key) ==
    LET hits == {i \in DOMAIN matchedProducts :
                    matchedProducts[i].extracted.item_number = key}
    IN  IF hits = {} THEN None
        ELSE Some(matchedProducts[CHOOSE i \in hits :
                                    \A j \in hits : i >= j].matched)

\* processOCRData, lines 77-95: the map callback.
responseProduct(prods, matchedProducts, inputProduct) ==
    LET matchedProduct ==
            matchedProductsMap(matchedProducts, inputProduct.item_number)
    IN  [item_number |-> inputProduct.item_number,
         product_name |-> inputProduct.product_name,
         price |-> IF IsSome(matchedProduct)
                   THEN Some(prods[Val(matchedProduct)].price) ELSE None,
         defaultDiscount |-> IF IsSome(matchedProduct)
                   THEN Some(prods[Val(matchedProduct)].defaultDiscount)
                   ELSE None]

\* processOCRData, lines 56-111.
dataResponse(prods, data, result) ==
    IF Len(data) = 0
    THEN [status |-> 400, success |-> FALSE, data |-> <<>>]
    ELSE [status |-> 200, success |-> TRUE,
          data |-> [i \in DOMAIN data |->
                     responseProduct(prods, result.matchedProducts, data[i])]]

InitData ==
    /\ ServiceIdle
    /\ LegacyIdle
    /\ CalcIdle
    /\ ModelIdle
    /\ deployment = "service"
    /\ ocrText = <<>>
    /\ parsedItems = None
    /\ productDocs = <<>>
    /\ matcherProducts = <<>>
    /\ fuse = None
    /\ productText = <<>>
    /\ matches = None
    /\ processed = None
    /\ calls = <<>>
    /\ extracted \in ListsUpTo(ExtractedProducts, MaxExtracted)
    /\ findFails \in BOOLEAN
    /\ searches \in [ExtractedNames -> LegacyResults(allActive(Catalog))]
    /\ findFails => \A name \in ExtractedNames : searches[name] = <<>>
    /\ matching = None
    /\ dataReply = None

\* POST /process-data
ProcessOCRData ==
    /\ dataReply = None
    /\ LET result == matchProducts(extracted, searches, findFails)
       IN  /\ matching' = IF Len(extracted) = 0 THEN None ELSE Some(result)
           /\ dataReply' = Some(dataResponse(products, extracted, result))
    /\ UNCHANGED <<extracted, findFails, searches, concVars>>
    /\ UNCHANGED <<parseVars, matchVars, vars, legacyVars, calcVars, modelVars>>

SpecData == InitData /\ [][ProcessOCRData]_allVars

\* ------------------ SmartProductMatcher: calls in flight on one matcher
\* The versions of the Product collection while the calls run.
MatcherCatalogs ==
    {c \in ProductCollections :
        /\ {c[k].id : k \in DOMAIN c} \in {{1}, {1, 3}, {4}}
        /\ \A j, k \in DOMAIN c : j < k => c[j].id < c[k].id}

MatcherCalls == 1..NumMatcherCalls

IdleCall ==
    [op |-> "none", pc |-> "idle", text |-> <<>>, found |-> <<>>,
     used |-> <<>>, threw |-> FALSE]

\* A matcher that has not been constructed has no text and no result, and
\* the collection is at one of its versions.
InitMatcher ==
    /\ ServiceIdle
    /\ LegacyIdle
    /\ CalcIdle
    /\ ModelIdle
    /\ deployment = "service"
    /\ ocrText = <<>>
    /\ parsedItems = None
    /\ productDocs \in MatcherCatalogs
    /\ matcherProducts = <<>>
    /\ fuse = None
    /\ productText = <<>>
    /\ matches = None
    /\ processed = None
    /\ extracted = <<>>
    /\ findFails = FALSE
    /\ searches = <<>>
    /\ matching = None
    /\ dataReply = None
    /\ calls = [c \in MatcherCalls |-> IdleCall]

\* Products are added to, removed from or deactivated in the collection.
CatalogChanges ==
    /\ \E docs \in MatcherCatalogs \ {productDocs} : productDocs' = docs
    /\ UNCHANGED <<matcherProducts, fuse, productText, matches, processed>>
    /\ UNCHANGED <<parseVars, dataVars, concVars, vars, legacyVars, calcVars, modelVars>>

\* The index with no documents.
emptyFuse(prods) == Some(<<>>)

\* line 25: new Fuse(this.products, this.fuseOptions)
newFuse(prods) == Some(prods)

\* What one findMatches call works on: this.products for the exact,
\* category and keyword tiers and this.fuse for the fuzzy tier.
snapshotUsed(prods, fuseIndex) == [products |-> prods, fuse |-> fuseIndex]

\* lines 284-314 of processOCRText: parse, then one findMatches per item in
\* the synchronous map.
usedByItems(prods, fuseIndex, text) ==
    [i \in DOMAIN parseOCRText(text) |-> snapshotUsed(prods, fuseIndex)]

\* initialize() is called: line 24 up to the await.
CallInitialize(c) ==
    /\ calls[c].pc = "idle"
    /\ calls' = [calls EXCEPT ![c] = [@ EXCEPT !.op = "initialize",
                                               !.pc = "find"]]
    /\ UNCHANGED <<matchVars, parseVars, dataVars, vars, legacyVars, calcVars, modelVars>>

\* processOCRText(text) is called: lines 279-281 call initialize and await
\* it if no products are loaded; otherwise the call runs to its end.
CallProcessOCRText(c, text) ==
    /\ calls[c].pc = "idle"
    /\ calls' = [calls EXCEPT ![c] =
            IF Len(matcherProducts) = 0
            THEN [@ EXCEPT !.op = "processOCRText", !.pc = "find",
                           !.text = text]
            ELSE [@ EXCEPT !.op = "processOCRText", !.pc = "done",
                           !.text = text,
                           !.used = usedByItems(matcherProducts, fuse, text)]]
    /\ UNCHANGED <<matchVars, parseVars, dataVars, vars, legacyVars, calcVars, modelVars>>

\* findMatches(text) is called: it runs to its end, and throws at line 160
\* if no index has been built.
CallFindMatches(c, text) ==
    /\ calls[c].pc = "idle"
    /\ calls' = [calls EXCEPT ![c] =
            [@ EXCEPT !.op = "findMatches", !.pc = "done", !.text = text,
                      !.used = <<snapshotUsed(matcherProducts, fuse)>>,
                      !.threw = findMatches(matcherProducts, fuse, text,
                                            <<>>).error # "none"]]
    /\ UNCHANGED <<matchVars, parseVars, dataVars, vars, legacyVars, calcVars, modelVars>>

\* line 24: Product.find({ isActive: true }).lean() reads the collection.
FindResolves(c) ==
    /\ calls[c].pc = "find"
    /\ calls' = [calls EXCEPT ![c] =
            [@ EXCEPT !.pc = "found", !.found = activeProducts(productDocs)]]
    /\ UNCHANGED <<matchVars, parseVars, dataVars, vars, legacyVars, calcVars, modelVars>>

\* lines 24-26 after the await: this.products and this.fuse are assigned
\* without another await between them.
InitializeResumes(c) ==
    /\ calls[c].pc = "found"
    /\ matcherProducts' = calls[c].found
    /\ fuse' = newFuse(calls[c].found)
    /\ calls' = [calls EXCEPT ![c] =
            [@ EXCEPT !.pc = IF calls[c].op = "initialize" THEN "done"
                             ELSE "initialized"]]
    /\ UNCHANGED <<productDocs, productText, matches, processed>>
    /\ UNCHANGED <<parseVars, dataVars, vars, legacyVars, calcVars, modelVars>>

\* lines 284-327 after await this.initialize().
ProcessOCRTextResumes(c) ==
    /\ calls[c].pc = "initialized"
    /\ calls' = [calls EXCEPT ![c] =
            [@ EXCEPT !.pc = "done",
                      !.used = usedByItems(matcherProducts, fuse,
                                           calls[c].text)]]
    /\ UNCHANGED <<matchVars, parseVars, dataVars, vars, legacyVars, calcVars, modelVars>>

MatcherTexts ==
    {<<"f", "a", "n", " ", "6", "a", "\n", "B", "e", "l", "l">>}

MatcherNext ==
    \/ CatalogChanges
    \/ \E c \in MatcherCalls : CallInitialize(c)
    \/ \E c \in MatcherCalls, text \in MatcherTexts : CallProcessOCRText(c, text)
    \/ \E c \in MatcherCalls : CallFindMatches(c, <<"f", "a", "n">>)
    \/ \E c \in MatcherCalls : FindResolves(c)
    \/ \E c \in MatcherCalls : InitializeResumes(c)
    \/ \E c \in MatcherCalls : ProcessOCRTextResumes(c)

SpecMatcher == InitMatcher /\ [][MatcherNext]_allVars

\* ------------------------------------------------------------ claims

\* C1: the numbers generateQuotationNumber returns to concurrent
\* createQuotation calls are pairwise distinct.
C1_GeneratedNumbersDistinct ==
    \A r1, r2 \in Requests :
        (r1 # r2 /\ reqs[r1].generated > 0 /\ reqs[r2].generated > 0)
            => reqs[r1].number # reqs[r2].number

\* C2: any two persisted quotations have different quotation numbers, and a
\* save that meets an already used number fails and stores nothing.
C2_PersistedNumbersUnique ==
    /\ \A i, j \in DOMAIN quotations :
        i # j => quotations[i].quotationNumber # quotations[j].quotationNumber
    /\ \A r \in Requests :
        reqs[r].error = "duplicate" =>
            /\ reqs[r].status = 500
            /\ \A i \in DOMAIN quotations : quotations[i].request # r

C2_Witness ==
    \E r \in Requests :
        /\ reqs[r].error = "duplicate"
        /\ \E i \in DOMAIN quotations :
            quotations[i].quotationNumber = reqs[r].number

quotationsOfDay(d) ==
    Cardinality({i \in DOMAIN quotations : quotations[i].quotationNumber.day = d})

\* C3: with quotations created one after another on one day, fewer than
\* 10^PadWidth - 1 of them, every number generated is new and its sequence
\* is greater than the sequence of every number generated earlier that day.
C3_SequentialNumbersIncrease ==
    \A i, j \in DOMAIN issued :
        (/\ i < j
         /\ issued[i].day = issued[j].day
         /\ quotationsOfDay(issued[j].day) < 10^PadWidth - 1)
            => /\ issued[i] # issued[j]
               /\ parseInt(issued[i].suffix) < parseInt(issued[j].suffix)

C3_Witness ==
    /\ Len(issued) >= SeedQuotations + 2
    /\ Len(quotations) = Len(issued)
    /\ issued[Len(issued)].day = 1

\* C5: a request that failed on a quotation number collision has generated
\* a new number and retried before failing.
C5_CollisionIsRetried ==
    \A r \in Requests :
        reqs[r].error = "duplicate" => reqs[r].generated > 1

RECURSIVE SumItemTotal(_)
SumItemTotal(ps) ==
    IF ps = <<>> THEN 0 ELSE Head(ps).itemTotal + SumItemTotal(Tail(ps))

RECURSIVE SumPriceQuantity(_)
SumPriceQuantity(its) ==
    IF its = <<>> THEN 0
    ELSE Head(its).price * Head(its).quantity + SumPriceQuantity(Tail(its))

\* C7: calculateTotals returns grandTotal = subtotal - totalDiscountAmount
\* + totalGstAmount = the sum of itemTotal over processedItems, and
\* subtotal = the sum of price * quantity over the items.
C7_GrandTotalIsSumOfItemTotals ==
    IsSome(calcResult) =>
        LET t == Val(calcResult)
        IN  /\ t.grandTotal =
                t.subtotal - t.totalDiscountAmount + t.totalGstAmount
            /\ t.grandTotal = SumItemTotal(t.processedItems)
            /\ t.subtotal = SumPriceQuantity(calcItems) * Scale

C7_Witness ==
    /\ IsSome(calcResult)
    /\ Len(calcItems) = 2
    /\ Val(calcResult).totalDiscountAmount > 0
    /\ Val(calcResult).totalGstAmount > 0

\* C8: for every processed item netPrice = price * quantity *
\* (1 - discountPercentage/100), taxAmount = netPrice * gstPercentage/100 and
\* itemTotal = netPrice + taxAmount, unrounded; 2500 x 5 at 5% and 18% gives
\* 11875, 2137.5 and 14012.5.
C8_ItemAmountsExact ==
    IsSome(calcResult) =>
        \A i \in DOMAIN calcItems :
            LET it == calcItems[i]
                p == Val(calcResult).processedItems[i]
            IN  /\ p.netPrice =
                    it.price * it.quantity * (Percent - it.discountPercentage)
                        * (Scale \div Percent)
                /\ p.netPrice % Percent = 0
                /\ p.taxAmount = (p.netPrice \div Percent) * it.gstPercentage
                /\ p.itemTotal = p.netPrice + p.taxAmount
                /\ it = CalcItem(2500, 5, 5, 18) =>
                    /\ p.netPrice = 11875 * Scale
                    /\ p.taxAmount * 10 = 21375 * Scale
                    /\ p.itemTotal * 10 = 140125 * Scale

C8_Witness ==
    /\ IsSome(calcResult)
    /\ \E i \in DOMAIN calcItems :
        /\ calcItems[i] = CalcItem(2500, 5, 5, 18)
        /\ Val(calcResult).processedItems[i].itemTotal * 10 = 140125 * Scale
    /\ \E i \in DOMAIN calcItems : calcItems[i] = CalcItem(1, 1, 5, 18)

\* C6: the stored totals of every quotation of the model are the ones
\* computed from its stored items and appliedDiscount.
C6_StoredTotalsAreComputed ==
    \A id \in DOMAIN qdocs :
        LET doc == qdocs[id]
            totalPrice == totalPriceOf(doc.items)
        IN  /\ doc.totalPrice = Some(totalPrice)
            /\ doc.discountAmount =
                    discountAmountFor(totalPrice, doc.appliedDiscount)
            /\ doc.finalPrice = Some(totalPrice - doc.discountAmount)

itemOutOfRange(item) ==
    \/ item.quantity <= 0
    \/ /\ IsSome(item.discountPercentage)
       /\ (Val(item.discountPercentage) < 0 \/ Val(item.discountPercentage) > 100)
    \/ /\ item.product \in DOMAIN products
       /\ (products[item.product].price <= 0
            \/ products[item.product].gstPercentage < 0)

\* C9: createQuotation answers a validation error, computes no total and
\* persists nothing for a request with an item whose quantity or unit price
\* is zero or negative, whose discount percentage is outside 0..100 or whose
\* tax percentage is negative.
C9_OutOfRangeItemsRejected ==
    \A r \in Requests :
        (/\ reqs[r].pc = "done"
         /\ \E i \in DOMAIN reqs[r].body.items :
                itemOutOfRange(reqs[r].body.items[i]))
            => /\ reqs[r].status = 400
               /\ reqs[r].totals = calculateTotals(<<>>)
               /\ \A i \in DOMAIN quotations : quotations[i].request # r

emptyOrMissingItems(b) == b.itemsKind # "array" \/ Len(b.items) = 0

\* C10: a creation request whose item list is empty or missing is answered
\* with a validation error; no quotation is persisted for it and no
\* quotation number is generated.
C10_EmptyItemListRejected ==
    /\ \A r \in Requests :
        (reqs[r].pc # "idle" /\ emptyOrMissingItems(reqs[r].body))
            => /\ reqs[r].pc = "done"
               /\ reqs[r].status = 400
               /\ reqs[r].generated = 0
               /\ \A i \in DOMAIN quotations : quotations[i].request # r
    /\ (last.op \in {"createQuotation", "createQuotationFromOCR"}
            /\ (last.itemsKind # "array" \/ last.itemCount = 0))
            => /\ last.status = 400
               /\ Len(qdocs) = last.before

C10_Witness ==
    \E r \in Requests :
        /\ reqs[r].pc = "done"
        /\ reqs[r].body.customer
        /\ reqs[r].body.itemsKind = "array"
        /\ reqs[r].body.items = <<>>
        /\ reqs[r].status = 400

\* The product an item refers to is missing from the collection or inactive.
refersToUnavailable(item) ==
    \/ item.product \notin DOMAIN products
    \/ ~products[item.product].isActive

\* C11: a creation request with an item whose product does not exist or is
\* not active is rejected and persists nothing; no stored quotation has an
\* item that refers to a missing or inactive product.
C11_UnavailableProductsRejected ==
    /\ \A r \in Requests :
        (/\ reqs[r].pc = "done"
         /\ \E i \in DOMAIN reqs[r].body.items :
                refersToUnavailable(reqs[r].body.items[i]))
            => /\ reqs[r].status = 400
               /\ \A i \in DOMAIN quotations : quotations[i].request # r
    /\ \A q \in DOMAIN quotations : \A i \in DOMAIN quotations[q].items :
            ~refersToUnavailable(quotations[q].items[i])
    /\ \A id \in DOMAIN qdocs : \A i \in DOMAIN qdocs[id].items :
            LET productId == qdocs[id].items[i].productId
            IN  IsSome(productId) =>
                    /\ Val(productId) \in DOMAIN ModelCatalog
                    /\ ModelCatalog[Val(productId)].isActive

\* C12: createQuotation computes every line with the discount percentage
\* the caller supplied for it, 0 included, and with the product's
\* defaultDiscount only where the caller supplied none.
C12_SuppliedDiscountIsUsed ==
    \A r \in Requests :
        (/\ reqs[r].pc \in {"latest", "save", "done"}
         /\ reqs[r].error = "none")
            => \A i \in DOMAIN reqs[r].body.items :
                LET item == reqs[r].body.items[i]
                    used == reqs[r].totals.processedItems[i].discountPercentage
                IN  used = IF IsSome(item.discountPercentage)
                           THEN Val(item.discountPercentage)
                           ELSE products[item.product].defaultDiscount

\* The lines of the text that are non-empty after trimming and not noise,
\* trimmed, in order.
meaningfulLines(text) ==
    LET kept == SelectSeq(split(text),
                          LAMBDA line : trim(line) # <<>> /\ ~isNoise(line))
    IN  [i \in DOMAIN kept |-> trim(kept[i])]

\* C13: for a non-empty text, the items parseOCRText emits for lines that
\* are non-empty after trimming and not noise are exactly one per such
\* line, in the order of the lines.
C13_OneItemPerMeaningfulLine ==
    (IsSome(parsedItems) /\ ocrText # <<>>) =>
        LET emitted == SelectSeq(Val(parsedItems),
                                 LAMBDA item : ~isNoise(item.originalText))
        IN  [i \in DOMAIN emitted |-> emitted[i].originalText]
                = meaningfulLines(ocrText)

\* C14: parseOCRText emits no item for a line isNoise classifies as noise.
C14_NoItemForNoise ==
    IsSome(parsedItems) =>
        \A i \in DOMAIN Val(parsedItems) :
            ~isNoise(Val(parsedItems)[i].originalText)

\* C15: every item parseOCRText emits has a quantity of at least 1, and of
\* exactly 1 when its line holds no digit.
C15_QuantityAtLeastOne ==
    IsSome(parsedItems) =>
        \A i \in DOMAIN Val(parsedItems) :
            LET item == Val(parsedItems)[i]
            IN  /\ item.quantity >= 1
                /\ (\A k \in DOMAIN item.originalText :
                        ~IsDigit(item.originalText[k])) => item.quantity = 1

\* One of the four (product text, quantity) patterns matches the line.
structuralMatch(line) == \E n \in 1..(NumPatterns - 1) : IsSome(patternMatch(n, line))

\* C16: an item whose line is not noise and matches no structural pattern
\* carries the cleaned line, quantity 1, matchedByOCR false and
\* requiresManualReview true; every such line of more than 2 characters is
\* emitted; and only such items are flagged.
C16_UnstructuredLinesFlagged ==
    IsSome(parsedItems) =>
        /\ \A i \in DOMAIN Val(parsedItems) :
            LET item == Val(parsedItems)[i]
                unstructured == ~structuralMatch(item.originalText)
            IN  /\ (unstructured /\ ~isNoise(item.originalText)) =>
                    /\ item.productText = cleanProductText(item.originalText)
                    /\ item.quantity = 1
                    /\ ~item.matchedByOCR
                    /\ item.requiresManualReview
                /\ (item.requiresManualReview \/ ~item.matchedByOCR)
                        => unstructured
        /\ \A k \in DOMAIN keptLines(ocrText) :
            LET line == trim(keptLines(ocrText)[k])
            IN  (~structuralMatch(line) /\ ~isNoise(line)) =>
                    \E i \in DOMAIN Val(parsedItems) :
                        Val(parsedItems)[i].originalText = line

\* C17: with the catalog loaded, findMatches of a text equal to the name of
\* a product P of the catalog, case-insensitively, returns P as the exact
\* match with confidence 1.0 and no fuzzy, category or keyword matches.
C17_ExactNameReturnsProduct ==
    (IsSome(matches) /\ IsSome(fuse)) =>
        \A i \in DOMAIN matcherProducts :
            nameEquals(matcherProducts[i], productText) =>
                Val(matches) =
                    [NoResults EXCEPT !.exactMatch = Some(matcherProducts[i]),
                                      !.confidence = 100]

\* C18: for an item of processOCRText without exact match whose top fuzzy
\* candidate has a score of at most 0.4, that candidate is the best match
\* and the confidence is 1 - score; with a top candidate of a greater score
\* there is no best match.
C18_FuzzyAcceptedWithinBand ==
    IsSome(processed) =>
        \A i \in DOMAIN Val(processed).processedItems :
            LET item == Val(processed).processedItems[i]
                m == item.allMatches
            IN  (m.exactMatch = None /\ Len(m.fuzzyMatches) > 0) =>
                    IF m.fuzzyMatches[1].score <= 40
                    THEN /\ item.bestMatch = Some(m.fuzzyMatches[1].product)
                         /\ item.confidence = 100 - m.fuzzyMatches[1].score
                    ELSE item.bestMatch = None

\* C19: the confidence findMatches returns is the contribution of the
\* earliest tier with candidates: 1.0 for an exact match, else that of the
\* top fuzzy match, else 0.3 for category matches, else 0.4 for keyword
\* matches, else 0.
C19_EarliestTierGivesConfidence ==
    (IsSome(matches) /\ Val(matches).error = "none") =>
        LET m == Val(matches)
        IN  m.confidence =
                IF IsSome(m.exactMatch) THEN 100
                ELSE IF Len(m.fuzzyMatches) > 0 THEN m.fuzzyMatches[1].confidence
                ELSE IF Len(m.categoryMatches) > 0 THEN 30
                ELSE IF Len(m.keywordMatches) > 0 THEN 40
                ELSE 0

\* C20: every item processOCRText returns has requiresReview true exactly
\* when its confidence is below 0.8 or it has no best match.
C20_RequiresReviewIffLowOrUnmatched ==
    IsSome(processed) =>
        \A i \in DOMAIN Val(processed).processedItems :
            LET item == Val(processed).processedItems[i]
            IN  item.requiresReview
                    <=> (item.confidence < 80 \/ item.bestMatch = None)

C20_Witness ==
    /\ IsSome(processed)
    /\ \E i \in DOMAIN Val(processed).processedItems :
        LET item == Val(processed).processedItems[i]
        IN  /\ IsSome(item.bestMatch)
            /\ item.confidence < 80
            /\ item.requiresReview
    /\ \E i \in DOMAIN Val(processed).processedItems :
        LET item == Val(processed).processedItems[i]
        IN  IsSome(item.bestMatch) /\ ~item.requiresReview

\* The confidence values of a result of findMatches: the overall one and
\* the one of each fuzzy alternative.
confidencesOf(m) ==
    {m.confidence} \cup {m.fuzzyMatches[i].confidence : i \in DOMAIN m.fuzzyMatches}

\* C21: every confidence value findMatches and processOCRText produce, the
\* overall one, the one of each item and the one of each fuzzy alternative
\* and suggestion, lies between 0 and 1.
C21_ConfidencesWithinUnitInterval ==
    /\ IsSome(matches) =>
        \A c \in confidencesOf(Val(matches)) : 0 <= c /\ c <= Percent
    /\ IsSome(processed) =>
        \A i \in DOMAIN Val(processed).processedItems :
            LET item == Val(processed).processedItems[i]
            IN  /\ 0 <= item.confidence /\ item.confidence <= Percent
                /\ \A c \in confidencesOf(item.allMatches) :
                        0 <= c /\ c <= Percent
                /\ \A k \in DOMAIN item.suggestions :
                        item.suggestions[k].type = "fuzzy_matches" =>
                            \A o \in DOMAIN item.suggestions[k].options :
                                LET c == item.suggestions[k].options[o].confidence
                                IN  0 <= c /\ c <= Percent

C21_Witness ==
    /\ IsSome(processed)
    /\ \E i \in DOMAIN Val(processed).processedItems :
        Val(processed).processedItems[i].confidence = 0
    /\ \E i \in DOMAIN Val(processed).processedItems :
        LET item == Val(processed).processedItems[i]
        IN  /\ Len(item.allMatches.fuzzyMatches) > 0
            /\ item.allMatches.fuzzyMatches[1].confidence = Percent
            /\ item.confidence = Percent

\* The catalog product matchProducts matches to the k-th extracted product:
\* the best result of fuse.search for its name, if its score is below 0.3.
matchedTo(k) ==
    LET results == searches[extracted[k].product_name]
    IN  IF ~findFails /\ Len(results) > 0 /\ results[1].score < MatchBelow
        THEN Some(results[1].item) ELSE None

\* C22: when loading the active products fails, the run ends in an explicit
\* failure: the response is no success and carries no per-item results.
C22_LoadFailureIsExplicit ==
    (IsSome(dataReply) /\ findFails) =>
        /\ ~Val(dataReply).success
        /\ Val(dataReply).status # 200
        /\ Val(dataReply).data = <<>>

\* C30: in the response of processOCRData every input product carries the
\* price and defaultDiscount of the catalog product matchProducts matched
\* to that input product, and null for both when it was not matched.
C30_ResponseCarriesOwnMatch ==
    (IsSome(dataReply) /\ Val(dataReply).status = 200) =>
        /\ Len(Val(dataReply).data) = Len(extracted)
        /\ \A k \in DOMAIN extracted :
            LET out == Val(dataReply).data[k]
                own == matchedTo(k)
            IN  /\ out.item_number = extracted[k].item_number
                /\ out.product_name = extracted[k].product_name
                /\ out.price = IF IsSome(own)
                               THEN Some(products[Val(own)].price) ELSE None
                /\ out.defaultDiscount =
                        IF IsSome(own)
                        THEN Some(products[Val(own)].defaultDiscount)
                        ELSE None

\* C23: within one processOCRText run every item is matched against one
\* and the same snapshot, and whenever findMatches runs with a fuzzy index,
\* the index holds exactly the product list of the other tiers, whatever
\* other calls are in flight on the matcher.
C23_OneSnapshotPerRun ==
    /\ IsSome(fuse) => Val(fuse) = matcherProducts
    /\ \A c \in DOMAIN calls :
        /\ \A i \in DOMAIN calls[c].used :
            LET u == calls[c].used[i]
            IN  /\ IsSome(u.fuse) => Val(u.fuse) = u.products
                /\ u.fuse = None => (u.products = <<>> /\ calls[c].threw)
        /\ calls[c].op = "processOCRText" =>
            \A i, j \in DOMAIN calls[c].used :
                /\ calls[c].used[i] = calls[c].used[j]
                /\ IsSome(calls[c].used[i].fuse)

\* Two processOCRText calls were in flight together on one matcher, the
\* collection changed between their loads, and both have matched their
\* items on a loaded catalog.
C23_Witness ==
    \E c, d \in DOMAIN calls :
        /\ c # d
        /\ calls[c].op = "processOCRText" /\ calls[c].pc = "done"
        /\ calls[d].op = "processOCRText" /\ calls[d].pc = "done"
        /\ calls[c].found # calls[d].found
        /\ Len(calls[c].used) = 2 /\ Len(calls[d].used) = 2
        /\ calls[c].used[1].products # <<>>
        /\ calls[c].used[1].products # calls[c].found

\* The second call of calculateTotals returned what the first returned:
\* the four totals and netPrice, taxAmount and itemTotal of every item.
secondCallAgrees ==
    IsSome(calcAgain) =>
        LET one == Val(calcResult)
            two == Val(calcAgain).result
        IN  /\ two.subtotal = one.subtotal
            /\ two.totalDiscountAmount = one.totalDiscountAmount
            /\ two.totalGstAmount = one.totalGstAmount
            /\ two.grandTotal = one.grandTotal
            /\ Len(two.processedItems) = Len(one.processedItems)
            /\ \A i \in DOMAIN one.processedItems :
                /\ two.processedItems[i].netPrice = one.processedItems[i].netPrice
                /\ two.processedItems[i].taxAmount = one.processedItems[i].taxAmount
                /\ two.processedItems[i].itemTotal = one.processedItems[i].itemTotal

\* C24: calculateTotals is idempotent: a second call on the same item list
\* or on the processedItems of the first call returns the same totals and
\* the same amounts per item, and no call changes the items it was given.
C24_CalculateTotalsIdempotent ==
    [][/\ calcItems' = calcItems
       /\ IsSome(calcResult) => calcResult' = calcResult
       /\ secondCallAgrees']_allVars

C24_Witness ==
    /\ IsSome(calcAgain)
    /\ Val(calcAgain).on = "processedItems"
    /\ Len(calcItems) = 2
    /\ \A i \in DOMAIN calcItems :
        /\ calcItems[i].discountPercentage = 5
        /\ calcItems[i].gstPercentage = 18
    /\ Val(calcAgain).result.grandTotal > 0

\* C25: the status of every persisted quotation is one of draft, sent,
\* approved, rejected, completed; an update with another status value is
\* rejected and leaves the stored status unchanged.
C25_StatusWithinSet ==
    \A id \in DOMAIN qdocs :
        qdocs[id].status \in {"draft", "sent", "approved", "rejected", "completed"}

\* The requests that add, update or remove an item of a quotation.
ItemRequests == {"addItem", "updateItem", "removeItem"}

\* C26: addItem, updateItem and removeItem change the items of a quotation
\* only while its status is draft; on a quotation of another status they
\* leave the item list and the totals as they are.
C26_ItemsChangeOnlyInDraft ==
    [][last'.op \in ItemRequests =>
        \A id \in DOMAIN qdocs :
            qdocs[id].status # "draft" =>
                /\ id \in DOMAIN qdocs'
                /\ qdocs'[id].items = qdocs[id].items
                /\ qdocs'[id].totalPrice = qdocs[id].totalPrice
                /\ qdocs'[id].discountAmount = qdocs[id].discountAmount
                /\ qdocs'[id].finalPrice = qdocs[id].finalPrice]_allVars

\* C27: a quotation number once assigned to a persisted quotation is never
\* assigned to a quotation created later, also when the earlier quotation
\* has been deleted in between: no two createQuotation requests answered
\* 201 carry the same number.
C27_NumbersNeverReused ==
    \A r, q \in Requests :
        (r # q /\ reqs[r].status = 201 /\ reqs[q].status = 201) =>
            reqs[r].number # reqs[q].number

\* The quotation of day d with the numerically greatest sequence.
greatestSequence(qs, d) ==
    LET hits == {i \in DOMAIN qs : qs[i].quotationNumber.day = d}
    IN  IF hits = {} THEN None
        ELSE Some(qs[CHOOSE i \in hits :
                        \A j \in hits :
                            parseInt(qs[j].quotationNumber.suffix)
                                <= parseInt(qs[i].quotationNumber.suffix)])

\* C28: for any number of quotations of the day, the quotation that
\* generateQuotationNumber selects as latest is the one with the
\* numerically greatest sequence, and the number it returns is the number
\* of no persisted quotation.
C28_LatestIsGreatestSequence ==
    /\ latestQuotation(quotations, today) = greatestSequence(quotations, today)
    /\ \A r \in Requests :
        reqs[r].pc = "save" =>
            \A i \in DOMAIN quotations :
                quotations[i].quotationNumber # reqs[r].number

\* Some item of the body refers to a product that does not exist.
refersToMissing(b) ==
    \E i \in DOMAIN b.items : b.items[i].product \notin DOMAIN products

\* C29: createQuotation accepts every request with a customer and items
\* that all refer to existing products, also when two items refer to the
\* same product, and answers that products are invalid only when a
\* referenced product does not exist.
C29_ExistingProductsAccepted ==
    \A r \in Requests :
        reqs[r].pc = "done" =>
            /\ (bodyAccepted(reqs[r].body) /\ ~refersToMissing(reqs[r].body))
                    => reqs[r].status # 400
            /\ reqs[r].error = "products" => refersToMissing(reqs[r].body)

====
